---- MODULE Spec2Model ----
(***************************************************************************)
(* A model of the 6502 core of rust-nes (src/src/cpu.rs, with the opcode   *)
(* table of src/src/cpu/instruction.rs) and of the driver in               *)
(* src/src/main.rs.                                                        *)
(*                                                                         *)
(* The CPU struct is modelled field by field.  Every method of the CPU is  *)
(* an operator over a record of these fields (the "self" of the method),   *)
(* returning the record after the call, or a record [s, v] when the method *)
(* also returns a value.  Rust's checked arithmetic (+, -, +=, -=) panics  *)
(* on overflow when the crate is built with overflow checks (the default   *)
(* of a debug build) and wraps otherwise; the build is the variable        *)
(* overflow_checks, chosen once.  A panic aborts the call: the record's    *)
(* panicked field is set and the action that made the call leaves the CPU  *)
(* fields as they were and only raises panicked.                           *)
(***************************************************************************)
EXTENDS Integers, Sequences, FiniteSets, TLC

VARIABLES
    cycles,           \* CPU.cycles
    running,          \* CPU.running
    status,           \* CPU.status
    pc,               \* CPU.pc
    sp,               \* CPU.sp
    a,                \* CPU.a
    x,                \* CPU.x
    y,                \* CPU.y
    memory,           \* CPU.memory: the bytes that are not 0, by address
    panicked,         \* a panic has unwound out of a call
    overflow_checks,  \* the build checks arithmetic overflow
    main,             \* main(): where it is, and its locals RESET and update
    last              \* history: the last operation and the CPU before it

vars == <<cycles, running, status, pc, sp, a, x, y, memory, panicked,
          overflow_checks, main, last>>

\* ------------------------------------------------------------------------
\* Constants of cpu.rs

STACK_PAGE == 1
NMI_VECTOR == 65530      \* 0xfffa
RESET_VECTOR == 65532    \* 0xfffc
IRQ_VECTOR == 65534      \* 0xfffe
NTSC_SPEED == 1790000
PAL_SPEED == 1660000

N_FLAG == 128
V_FLAG == 64
B_FLAG == 16
D_FLAG == 8
I_FLAG == 4
Z_FLAG == 2
C_FLAG == 1

\* ------------------------------------------------------------------------
\* Machine integers

Byte == 0..255

U8(n) == n % 256

U16(n) == n % 65536

Pow2(i) == CASE i = 0 -> 1 [] i = 1 -> 2 [] i = 2 -> 4 [] i = 3 -> 8
             [] i = 4 -> 16 [] i = 5 -> 32 [] i = 6 -> 64 [] i = 7 -> 128
             [] i = 8 -> 256 [] i = 9 -> 512 [] i = 10 -> 1024
             [] i = 11 -> 2048 [] i = 12 -> 4096 [] i = 13 -> 8192
             [] i = 14 -> 16384 [] i = 15 -> 32768

Bit(v, i) == (v \div Pow2(i)) % 2

\* the bitwise operators, four bits at a time; op is the operator on bits
Nibbles(op) ==
    [v \in 0..15, w \in 0..15 |->
        op[Bit(v, 0), Bit(w, 0)] + 2 * op[Bit(v, 1), Bit(w, 1)] +
        4 * op[Bit(v, 2), Bit(w, 2)] + 8 * op[Bit(v, 3), Bit(w, 3)]]

AndBits == [p \in {0, 1} \X {0, 1} |-> IF p[1] = 1 /\ p[2] = 1 THEN 1 ELSE 0]
OrBits  == [p \in {0, 1} \X {0, 1} |-> IF p[1] = 1 \/ p[2] = 1 THEN 1 ELSE 0]
XorBits == [p \in {0, 1} \X {0, 1} |-> IF p[1] # p[2] THEN 1 ELSE 0]

AndNibbles == Nibbles(AndBits)
OrNibbles == Nibbles(OrBits)
XorNibbles == Nibbles(XorBits)

\* v and w are at most 16 bits wide
Bitwise(table, v, w) ==
    table[v % 16, w % 16] +
    16 * table[(v \div 16) % 16, (w \div 16) % 16] +
    256 * table[(v \div 256) % 16, (w \div 256) % 16] +
    4096 * table[v \div 4096, w \div 4096]

BitAnd(v, w) == Bitwise(AndNibbles, v, w)
BitOr(v, w)  == Bitwise(OrNibbles, v, w)
BitXor(v, w) == Bitwise(XorNibbles, v, w)

\* !m for a u8
BitNot8(m) == 255 - m

\* v as i8
AsI8(v) == IF v > 127 THEN v - 256 ELSE v

Abs(n) == IF n < 0 THEN 0 - n ELSE n

\* ------------------------------------------------------------------------
\* memory: [u8; 65536], all 0 at construction.  The model keeps the bytes
\* that are not 0.

EmptyMemory == [addr \in {} |-> 0]

Read(mem, addr) == IF addr \in DOMAIN mem THEN mem[addr] ELSE 0

Write(mem, addr, value) ==
    LET dom == IF value = 0 THEN DOMAIN mem \ {addr} ELSE DOMAIN mem \cup {addr}
    IN  [i \in dom |-> IF i = addr THEN value ELSE mem[i]]

\* ------------------------------------------------------------------------
\* The CPU as a record, and panics

Self == [cycles |-> cycles, running |-> running, status |-> status,
         pc |-> pc, sp |-> sp, a |-> a, x |-> x, y |-> y,
         memory |-> memory, panicked |-> panicked]

Default == [cycles |-> 0, running |-> FALSE, status |-> 0, pc |-> 0,
            sp |-> 0, a |-> 0, x |-> 0, y |-> 0, memory |-> EmptyMemory,
            panicked |-> FALSE]

Panic(s) == [s EXCEPT !.panicked = TRUE]

\* a checked arithmetic operation whose exact result is out of range
Overflow(s, out_of_range) ==
    IF overflow_checks /\ out_of_range THEN Panic(s) ELSE s

\* ------------------------------------------------------------------------
\* Flags

get_flag_constant(f) ==
    LET constants == <<N_FLAG, V_FLAG, B_FLAG, D_FLAG, I_FLAG, Z_FLAG, C_FLAG>>
        flags == <<"Negative", "Overflow", "B", "Decimal", "Interrupt",
                   "Zero", "Carry">>
    IN  constants[CHOOSE i \in 1..7 : flags[i] = f]

\* set_flag() clearing a flag with a mask that also clears the bit above it
set_flag_wide_mask(s, f, v) ==
    LET flag_constant == get_flag_constant(f)
    IN  [s EXCEPT !.status =
            BitOr(BitAnd(s.status, BitNot8(U8(3 * flag_constant))),
                  IF v THEN flag_constant ELSE 0)]

set_flag(s, f, v) ==
    LET flag_constant == get_flag_constant(f)
    IN  [s EXCEPT !.status =
            BitOr(BitAnd(s.status, BitNot8(flag_constant)),
                  IF v THEN flag_constant ELSE 0)]

is_set(s, f) == BitAnd(s.status, get_flag_constant(f)) # 0

update_status(s, value) ==
    IF value = 0
    THEN set_flag(set_flag(s, "Zero", TRUE), "Negative", FALSE)
    ELSE LET s1 == set_flag(s, "Zero", FALSE)
         IN  IF value > 127 THEN set_flag(s1, "Negative", TRUE) ELSE s1

\* ------------------------------------------------------------------------
\* cpu/instruction.rs: the opcode table

Instruction(mnemonic, mode, time) ==
    [mnemonic |-> mnemonic, mode |-> mode, time |-> time]

INSTRUCTIONS ==
       105 :> Instruction("ADC", "Immediate", 2)   \* 0x69
    @@ 101 :> Instruction("ADC", "Zero", 3)   \* 0x65
    @@ 117 :> Instruction("ADC", "ZeroX", 4)   \* 0x75
    @@ 109 :> Instruction("ADC", "Absolute", 4)   \* 0x6d
    @@ 125 :> Instruction("ADC", "AbsoluteX", 4)   \* 0x7d
    @@ 121 :> Instruction("ADC", "AbsoluteY", 4)   \* 0x79
    @@ 97 :> Instruction("ADC", "IndirectX", 6)   \* 0x61
    @@ 113 :> Instruction("ADC", "IndirectY", 5)   \* 0x71
    @@ 41 :> Instruction("AND", "Immediate", 2)   \* 0x29
    @@ 37 :> Instruction("AND", "Zero", 3)   \* 0x25
    @@ 53 :> Instruction("AND", "ZeroX", 4)   \* 0x35
    @@ 45 :> Instruction("AND", "Absolute", 4)   \* 0x2d
    @@ 61 :> Instruction("AND", "AbsoluteX", 4)   \* 0x3d
    @@ 57 :> Instruction("AND", "AbsoluteY", 4)   \* 0x39
    @@ 33 :> Instruction("AND", "IndirectX", 6)   \* 0x21
    @@ 49 :> Instruction("AND", "IndirectY", 5)   \* 0x31
    @@ 10 :> Instruction("ASL", "Accumulator", 2)   \* 0x0a
    @@ 6 :> Instruction("ASL", "Zero", 5)   \* 0x06
    @@ 22 :> Instruction("ASL", "ZeroX", 6)   \* 0x16
    @@ 14 :> Instruction("ASL", "Absolute", 6)   \* 0x0e
    @@ 30 :> Instruction("ASL", "AbsoluteX", 7)   \* 0x1e
    @@ 36 :> Instruction("BIT", "Zero", 3)   \* 0x24
    @@ 44 :> Instruction("BIT", "Absolute", 4)   \* 0x2c
    @@ 16 :> Instruction("BPL", "Relative", 3)   \* 0x10
    @@ 48 :> Instruction("BMI", "Relative", 3)   \* 0x30
    @@ 80 :> Instruction("BVC", "Relative", 3)   \* 0x50
    @@ 112 :> Instruction("BVS", "Relative", 3)   \* 0x70
    @@ 144 :> Instruction("BCC", "Relative", 3)   \* 0x90
    @@ 176 :> Instruction("BCS", "Relative", 3)   \* 0xb0
    @@ 208 :> Instruction("BNE", "Relative", 3)   \* 0xd0
    @@ 240 :> Instruction("BEQ", "Relative", 3)   \* 0xf0
    @@ 0 :> Instruction("BRK", "Implied", 7)   \* 0x00
    @@ 201 :> Instruction("CMP", "Immediate", 2)   \* 0xc9
    @@ 197 :> Instruction("CMP", "Zero", 3)   \* 0xc5
    @@ 213 :> Instruction("CMP", "ZeroX", 4)   \* 0xd5
    @@ 205 :> Instruction("CMP", "Absolute", 4)   \* 0xcd
    @@ 221 :> Instruction("CMP", "AbsoluteX", 4)   \* 0xdd
    @@ 217 :> Instruction("CMP", "AbsoluteY", 4)   \* 0xd9
    @@ 193 :> Instruction("CMP", "IndirectX", 6)   \* 0xc1
    @@ 209 :> Instruction("CMP", "IndirectY", 5)   \* 0xd1
    @@ 224 :> Instruction("CPX", "Immediate", 2)   \* 0xe0
    @@ 228 :> Instruction("CPX", "Zero", 3)   \* 0xe4
    @@ 236 :> Instruction("CPX", "Absolute", 4)   \* 0xec
    @@ 192 :> Instruction("CPY", "Immediate", 2)   \* 0xc0
    @@ 196 :> Instruction("CPY", "Zero", 3)   \* 0xc4
    @@ 204 :> Instruction("CPY", "Absolute", 4)   \* 0xcc
    @@ 198 :> Instruction("DEC", "Zero", 5)   \* 0xc6
    @@ 214 :> Instruction("DEC", "ZeroX", 6)   \* 0xd6
    @@ 206 :> Instruction("DEC", "Absolute", 6)   \* 0xce
    @@ 222 :> Instruction("DEC", "AbsoluteX", 7)   \* 0xde
    @@ 73 :> Instruction("EOR", "Immediate", 2)   \* 0x49
    @@ 69 :> Instruction("EOR", "Zero", 3)   \* 0x45
    @@ 85 :> Instruction("EOR", "ZeroX", 4)   \* 0x55
    @@ 77 :> Instruction("EOR", "Absolute", 4)   \* 0x4d
    @@ 93 :> Instruction("EOR", "AbsoluteX", 4)   \* 0x5d
    @@ 89 :> Instruction("EOR", "AbsoluteY", 4)   \* 0x59
    @@ 65 :> Instruction("EOR", "IndirectX", 6)   \* 0x41
    @@ 81 :> Instruction("EOR", "IndirectY", 5)   \* 0x51
    @@ 24 :> Instruction("CLC", "Implied", 2)   \* 0x18
    @@ 56 :> Instruction("SEC", "Implied", 2)   \* 0x38
    @@ 88 :> Instruction("CLI", "Implied", 2)   \* 0x58
    @@ 120 :> Instruction("SEI", "Implied", 2)   \* 0x78
    @@ 184 :> Instruction("CLV", "Implied", 2)   \* 0xb8
    @@ 216 :> Instruction("CLD", "Implied", 2)   \* 0xd8
    @@ 248 :> Instruction("SED", "Implied", 2)   \* 0xf8
    @@ 230 :> Instruction("INC", "Zero", 5)   \* 0xe6
    @@ 246 :> Instruction("INC", "ZeroX", 6)   \* 0xf6
    @@ 238 :> Instruction("INC", "Absolute", 6)   \* 0xee
    @@ 254 :> Instruction("INC", "AbsoluteX", 7)   \* 0xfe
    @@ 76 :> Instruction("JMP", "Absolute", 3)   \* 0x4c
    @@ 108 :> Instruction("JMP", "Indirect", 5)   \* 0x6c
    @@ 32 :> Instruction("JSR", "Absolute", 6)   \* 0x20
    @@ 169 :> Instruction("LDA", "Immediate", 2)   \* 0xa9
    @@ 165 :> Instruction("LDA", "Zero", 3)   \* 0xa5
    @@ 181 :> Instruction("LDA", "ZeroX", 4)   \* 0xb5
    @@ 173 :> Instruction("LDA", "Absolute", 4)   \* 0xad
    @@ 189 :> Instruction("LDA", "AbsoluteX", 4)   \* 0xbd
    @@ 185 :> Instruction("LDA", "AbsoluteY", 4)   \* 0xb9
    @@ 161 :> Instruction("LDA", "IndirectX", 6)   \* 0xa1
    @@ 177 :> Instruction("LDA", "IndirectY", 5)   \* 0xb1
    @@ 162 :> Instruction("LDX", "Immediate", 2)   \* 0xa2
    @@ 166 :> Instruction("LDX", "Zero", 3)   \* 0xa6
    @@ 182 :> Instruction("LDX", "ZeroY", 4)   \* 0xb6
    @@ 174 :> Instruction("LDX", "Absolute", 4)   \* 0xae
    @@ 190 :> Instruction("LDX", "AbsoluteY", 4)   \* 0xbe
    @@ 160 :> Instruction("LDY", "Immediate", 2)   \* 0xa0
    @@ 164 :> Instruction("LDY", "Zero", 3)   \* 0xa4
    @@ 180 :> Instruction("LDY", "ZeroX", 4)   \* 0xb4
    @@ 172 :> Instruction("LDY", "Absolute", 4)   \* 0xac
    @@ 188 :> Instruction("LDY", "AbsoluteX", 4)   \* 0xbc
    @@ 74 :> Instruction("LSR", "Accumulator", 2)   \* 0x4a
    @@ 70 :> Instruction("LSR", "Zero", 5)   \* 0x46
    @@ 86 :> Instruction("LSR", "ZeroX", 6)   \* 0x56
    @@ 78 :> Instruction("LSR", "Absolute", 6)   \* 0x4e
    @@ 94 :> Instruction("LSR", "AbsoluteX", 7)   \* 0x5e
    @@ 234 :> Instruction("NOP", "Implied", 2)   \* 0xea
    @@ 9 :> Instruction("ORA", "Immediate", 2)   \* 0x09
    @@ 5 :> Instruction("ORA", "Zero", 3)   \* 0x05
    @@ 21 :> Instruction("ORA", "ZeroX", 4)   \* 0x15
    @@ 13 :> Instruction("ORA", "Absolute", 4)   \* 0x0d
    @@ 29 :> Instruction("ORA", "AbsoluteX", 4)   \* 0x1d
    @@ 25 :> Instruction("ORA", "AbsoluteY", 4)   \* 0x19
    @@ 1 :> Instruction("ORA", "IndirectX", 6)   \* 0x01
    @@ 17 :> Instruction("ORA", "IndirectY", 5)   \* 0x11
    @@ 170 :> Instruction("TAX", "Implied", 2)   \* 0xaa
    @@ 138 :> Instruction("TXA", "Implied", 2)   \* 0x8a
    @@ 202 :> Instruction("DEX", "Implied", 2)   \* 0xca
    @@ 232 :> Instruction("INX", "Implied", 2)   \* 0xe8
    @@ 168 :> Instruction("TAY", "Implied", 2)   \* 0xa8
    @@ 152 :> Instruction("TYA", "Implied", 2)   \* 0x98
    @@ 136 :> Instruction("DEY", "Implied", 2)   \* 0x88
    @@ 200 :> Instruction("INY", "Implied", 2)   \* 0xc8
    @@ 42 :> Instruction("ROL", "Accumulator", 2)   \* 0x2a
    @@ 38 :> Instruction("ROL", "Zero", 5)   \* 0x26
    @@ 54 :> Instruction("ROL", "ZeroX", 6)   \* 0x36
    @@ 46 :> Instruction("ROL", "Absolute", 6)   \* 0x2e
    @@ 62 :> Instruction("ROL", "AbsoluteX", 7)   \* 0x3e
    @@ 106 :> Instruction("ROR", "Accumulator", 2)   \* 0x6a
    @@ 102 :> Instruction("ROR", "Zero", 5)   \* 0x66
    @@ 118 :> Instruction("ROR", "ZeroX", 6)   \* 0x76
    @@ 110 :> Instruction("ROR", "Absolute", 6)   \* 0x6e
    @@ 126 :> Instruction("ROR", "AbsoluteX", 7)   \* 0x7e
    @@ 64 :> Instruction("RTI", "Implied", 6)   \* 0x40
    @@ 96 :> Instruction("RTS", "Implied", 6)   \* 0x60
    @@ 233 :> Instruction("SBC", "Immediate", 2)   \* 0xe9
    @@ 229 :> Instruction("SBC", "Zero", 3)   \* 0xe5
    @@ 245 :> Instruction("SBC", "ZeroX", 4)   \* 0xf5
    @@ 237 :> Instruction("SBC", "Absolute", 4)   \* 0xed
    @@ 253 :> Instruction("SBC", "AbsoluteX", 4)   \* 0xfd
    @@ 249 :> Instruction("SBC", "AbsoluteY", 4)   \* 0xf9
    @@ 225 :> Instruction("SBC", "IndirectX", 6)   \* 0xe1
    @@ 241 :> Instruction("SBC", "IndirectY", 5)   \* 0xf1
    @@ 133 :> Instruction("STA", "Zero", 3)   \* 0x85
    @@ 149 :> Instruction("STA", "ZeroX", 4)   \* 0x95
    @@ 141 :> Instruction("STA", "Absolute", 4)   \* 0x8d
    @@ 157 :> Instruction("STA", "AbsoluteX", 5)   \* 0x9d
    @@ 153 :> Instruction("STA", "AbsoluteY", 5)   \* 0x99
    @@ 129 :> Instruction("STA", "IndirectX", 6)   \* 0x81
    @@ 145 :> Instruction("STA", "IndirectY", 6)   \* 0x91
    @@ 154 :> Instruction("TXS", "Implied", 2)   \* 0x9a
    @@ 186 :> Instruction("TSX", "Implied", 2)   \* 0xba
    @@ 72 :> Instruction("PHA", "Implied", 3)   \* 0x48
    @@ 104 :> Instruction("PLA", "Implied", 4)   \* 0x68
    @@ 8 :> Instruction("PHP", "Implied", 3)   \* 0x08
    @@ 40 :> Instruction("PLP", "Implied", 4)   \* 0x28
    @@ 134 :> Instruction("STX", "Zero", 3)   \* 0x86
    @@ 150 :> Instruction("STX", "ZeroY", 4)   \* 0x96
    @@ 142 :> Instruction("STX", "Absolute", 4)   \* 0x8e
    @@ 132 :> Instruction("STY", "Zero", 3)   \* 0x84
    @@ 148 :> Instruction("STY", "ZeroX", 4)   \* 0x94
    @@ 140 :> Instruction("STY", "Absolute", 4)   \* 0x8c

\* ------------------------------------------------------------------------
\* Addressing modes.  Each returns [s |-> the CPU after the call, v |-> the
\* value returned].

read_zp_address(s, mode) ==
    LET address == U8(Read(s.memory, s.pc) +
                      (IF mode = "ZeroX" THEN s.x
                       ELSE IF mode = "ZeroY" THEN s.y
                       ELSE 0))
    IN  [s |-> [s EXCEPT !.pc = U16(s.pc + 1)], v |-> address]

read_absolute_address(s) ==
    LET address == Read(s.memory, s.pc) + 256 * Read(s.memory, U16(s.pc + 1))
        s1 == Overflow(s, s.pc + 1 > 65535)           \* self.pc + 1
        s2 == Overflow(s1, s.pc + 2 > 65535)          \* self.pc += 2
    IN  [s |-> [s2 EXCEPT !.pc = U16(s.pc + 2)], v |-> address]

read_indirect_address(s) ==
    LET ptr_low == Read(s.memory, s.pc)
        pc1 == U16(s.pc + 1)
        ptr_high == Read(s.memory, pc1)
        addr_low == Read(s.memory, 256 * ptr_high + ptr_low)
        ptr_high2 == U8(ptr_high + 1)
        addr_high == Read(s.memory, 256 * ptr_high2 + ptr_low)
    IN  [s |-> [s EXCEPT !.pc = U16(pc1 + 1)], v |-> 256 * addr_high + addr_low]

read_indirect_indexed_address(s) ==
    LET zp_address == Read(s.memory, s.pc)
        s1 == Overflow(s, zp_address + 1 > 255)       \* zp_address + 1, a u8
        base == Read(s.memory, zp_address) +
                256 * Read(s.memory, U8(zp_address + 1))
        s2 == Overflow(s1, base + s.y > 65535)        \* address += self.y
    IN  [s |-> [s2 EXCEPT !.pc = U16(s.pc + 1)], v |-> U16(base + s.y)]

read_indexed_indirect_address(s) ==
    LET zp_address == U8(Read(s.memory, s.pc) + s.x)
        s1 == Overflow(s, zp_address + 1 > 255)       \* zp_address + 1, a u8
        address == Read(s.memory, zp_address) +
                   256 * Read(s.memory, U8(zp_address + 1))
    IN  [s |-> [s1 EXCEPT !.pc = U16(s.pc + 1)], v |-> address]

\* the CPU that took the last branch of read_value() or read_address(), the
\* one for a mode they do not handle; the record remembers the mode
Unhandled(s, mode) == s @@ [unhandled |-> mode]

read_value(s, mode) ==
    LET offset == IF mode \in {"AbsoluteX", "IndirectX", "ZeroX"} THEN s.x
                  ELSE IF mode \in {"AbsoluteY", "IndirectY", "ZeroY"} THEN s.y
                  ELSE 0
    IN  IF mode = "Immediate"
        THEN [s |-> [s EXCEPT !.pc = U16(s.pc + 1)], v |-> Read(s.memory, s.pc)]
        ELSE IF mode \in {"Zero", "ZeroX", "ZeroY"}
        THEN LET r == read_zp_address(s, mode)
             IN  [s |-> r.s, v |-> Read(r.s.memory, r.v)]
        ELSE IF mode \in {"Absolute", "AbsoluteX", "AbsoluteY"}
        THEN LET r == read_absolute_address(s)
                 s1 == Overflow(r.s, r.v + offset > 65535)
                 address == U16(r.v + offset)
             IN  [s |-> s1, v |-> Read(s1.memory, address)]
        ELSE IF mode = "IndirectX"
        THEN LET r == read_indexed_indirect_address(s)
             IN  [s |-> r.s, v |-> Read(r.s.memory, r.v)]
        ELSE IF mode = "IndirectY"
        THEN LET r == read_indirect_indexed_address(s)
             IN  [s |-> r.s, v |-> Read(r.s.memory, r.v)]
        ELSE [s |-> Unhandled(Panic(s), mode), v |-> 0]
                                           \* panic!("Illegal addressing mode")

\* read_address() without the branch for (zp,X)
read_address_without_indirect_x(s, mode) ==
    IF mode \in {"Zero", "ZeroX", "ZeroY"}
    THEN read_zp_address(s, mode)
    ELSE IF mode \in {"Absolute", "AbsoluteX", "AbsoluteY"}
    THEN LET r == read_absolute_address(s)
             index == IF mode = "AbsoluteX" THEN s.x
                      ELSE IF mode = "AbsoluteY" THEN s.y
                      ELSE 0
         IN  [s |-> Overflow(r.s, r.v + index > 65535), v |-> U16(r.v + index)]
    ELSE IF mode = "Indirect"
    THEN read_indirect_address(s)
    ELSE IF mode = "IndirectY"
    THEN read_indirect_indexed_address(s)
    ELSE [s |-> Unhandled(s, mode), v |-> 0]

read_address(s, mode) ==
    IF mode \in {"Zero", "ZeroX", "ZeroY"}
    THEN read_zp_address(s, mode)
    ELSE IF mode \in {"Absolute", "AbsoluteX", "AbsoluteY"}
    THEN LET r == read_absolute_address(s)
             index == IF mode = "AbsoluteX" THEN s.x
                      ELSE IF mode = "AbsoluteY" THEN s.y
                      ELSE 0
         IN  [s |-> Overflow(r.s, r.v + index > 65535), v |-> U16(r.v + index)]
    ELSE IF mode = "Indirect"
    THEN read_indirect_address(s)
    ELSE IF mode = "IndirectX"
    THEN read_indexed_indirect_address(s)
    ELSE IF mode = "IndirectY"
    THEN read_indirect_indexed_address(s)
    ELSE [s |-> Unhandled(s, mode), v |-> 0]

\* store() with the assignment dropped
store_without_write(s, value, mode) == read_address(s, mode).s

\* store() setting Zero and Negative from the value, as a load does
store_updates_status(s, value, mode) ==
    LET r == read_address(s, mode)
    IN  update_status([r.s EXCEPT !.memory = Write(r.s.memory, r.v, value)],
                      value)

store(s, value, mode) ==
    LET r == read_address(s, mode)
    IN  [r.s EXCEPT !.memory = Write(r.s.memory, r.v, value)]

\* ------------------------------------------------------------------------
\* Stack

\* push() writing at the stack pointer without the stack page
push_without_stack_page(s, value) ==
    LET address == s.sp
    IN  [s EXCEPT !.memory = Write(s.memory, address, value),
                  !.sp = U8(s.sp - 1)]

push(s, value) ==
    LET address == 256 * STACK_PAGE + s.sp
    IN  [s EXCEPT !.memory = Write(s.memory, address, value),
                  !.sp = U8(s.sp - 1)]

\* pop() reading before it increments the stack pointer
pop_before_increment(s) ==
    [s |-> [s EXCEPT !.sp = U8(s.sp + 1)],
     v |-> Read(s.memory, 256 * STACK_PAGE + s.sp)]

pop(s) ==
    LET sp1 == U8(s.sp + 1)
        address == 256 * STACK_PAGE + sp1
    IN  [s |-> [s EXCEPT !.sp = sp1], v |-> Read(s.memory, address)]

\* ------------------------------------------------------------------------
\* Arithmetic, shifts, branches, control transfer

sbc(s, mode) ==
    LET minuend == s.a + (IF is_set(s, "Carry") THEN 256 ELSE 0)
        r == read_value(s, mode)
        subtrahend == r.v
        s1 == set_flag(r.s, "Overflow", Bit(minuend, 7) # Bit(subtrahend, 7))
        s2 == Overflow(s1, minuend < subtrahend)      \* minuend - subtrahend
        result == U16(minuend - subtrahend)
        s3 == set_flag(s2, "Carry", result <= 255)
        s4 == IF is_set(s3, "Overflow")
              THEN set_flag(s3, "Overflow", ~(result < 128 \/ result >= 384))
              ELSE s3
        s5 == update_status(s4, U8(result))
    IN  [s5 EXCEPT !.a = U8(result)]

\* adc() with Overflow left as the comparison of the operands' signs set it
adc_without_band(s, mode) ==
    LET addend == s.a
        r == read_value(s, mode)
        augend == r.v
        s1 == set_flag(r.s, "Overflow", Bit(addend, 7) = Bit(augend, 7))
        result == addend + augend + (IF is_set(s1, "Carry") THEN 1 ELSE 0)
        s2 == set_flag(s1, "Carry", result > 255)
        s4 == update_status(s2, U8(result))
    IN  [s4 EXCEPT !.a = U8(result)]

\* adc() with the band of Overflow ending at 0xFF instead of 0x17F
adc_band_below_carry(s, mode) ==
    LET addend == s.a
        r == read_value(s, mode)
        augend == r.v
        s1 == set_flag(r.s, "Overflow", Bit(addend, 7) = Bit(augend, 7))
        result == addend + augend + (IF is_set(s1, "Carry") THEN 1 ELSE 0)
        s2 == set_flag(s1, "Carry", result > 255)
        s3 == IF is_set(s2, "Overflow")
              THEN set_flag(s2, "Overflow", ~(result < 128 \/ result >= 256))
              ELSE s2
        s4 == update_status(s3, U8(result))
    IN  [s4 EXCEPT !.a = U8(result)]

\* adc() adding the operand without the carry
adc_without_carry_in(s, mode) ==
    LET addend == s.a
        r == read_value(s, mode)
        augend == r.v
        s1 == set_flag(r.s, "Overflow", Bit(addend, 7) = Bit(augend, 7))
        result == addend + augend
        s2 == set_flag(s1, "Carry", result > 255)
        s3 == IF is_set(s2, "Overflow")
              THEN set_flag(s2, "Overflow", ~(result < 128 \/ result >= 384))
              ELSE s2
        s4 == update_status(s3, U8(result))
    IN  [s4 EXCEPT !.a = U8(result)]

\* adc() adjusting the sum to binary-coded decimal when Decimal is set
adc_with_decimal_mode(s, mode) ==
    LET addend == s.a
        r == read_value(s, mode)
        augend == r.v
        s1 == set_flag(r.s, "Overflow", Bit(addend, 7) = Bit(augend, 7))
        carry == IF is_set(s1, "Carry") THEN 1 ELSE 0
        adjust == IF is_set(s1, "Decimal") /\
                     (addend % 16) + (augend % 16) + carry > 9
                  THEN 6 ELSE 0
        result == addend + augend + carry + adjust
        s2 == set_flag(s1, "Carry", result > 255)
        s3 == IF is_set(s2, "Overflow")
              THEN set_flag(s2, "Overflow", ~(result < 128 \/ result >= 384))
              ELSE s2
        s4 == update_status(s3, U8(result))
    IN  [s4 EXCEPT !.a = U8(result)]

adc(s, mode) ==
    LET addend == s.a
        r == read_value(s, mode)
        augend == r.v
        s1 == set_flag(r.s, "Overflow", Bit(addend, 7) = Bit(augend, 7))
        result == addend + augend + (IF is_set(s1, "Carry") THEN 1 ELSE 0)
        s2 == set_flag(s1, "Carry", result > 255)
        s3 == IF is_set(s2, "Overflow")
              THEN set_flag(s2, "Overflow", ~(result < 128 \/ result >= 384))
              ELSE s2
        s4 == update_status(s3, U8(result))
    IN  [s4 EXCEPT !.a = U8(result)]

and(s, mode) ==
    LET r == read_value(s, mode)
        value == BitAnd(r.s.a, r.v)
    IN  update_status([r.s EXCEPT !.a = value], value)

shift_left(s, address) ==
    LET old == Read(s.memory, address)
        msb == Bit(old, 7) = 1
        new == U8(old * 2)
        s1 == [s EXCEPT !.memory = Write(s.memory, address, new)]
    IN  update_status(set_flag(s1, "Carry", msb), new)

shift_right(s, address) ==
    LET old == Read(s.memory, address)
        lsb == BitAnd(old, 128) # 0
        new == old \div 2
        s1 == [s EXCEPT !.memory = Write(s.memory, address, new)]
    IN  update_status(set_flag(s1, "Carry", lsb), new)

rotate_left(s, address) ==
    LET c == is_set(s, "Carry")
        old == Read(s.memory, address)
        s1 == set_flag(s, "Carry", Bit(old, 7) = 1)
        new == BitOr(U8(old * 2), IF c THEN 1 ELSE 0)
        s2 == [s1 EXCEPT !.memory = Write(s1.memory, address, new)]
    IN  update_status(s2, new)

\* rotate_right() shifting a zero into bit 7 instead of the carry
rotate_right_drops_carry(s, address) ==
    LET old == Read(s.memory, address)
        s1 == set_flag(s, "Carry", Bit(old, 0) = 1)
        new == old \div 2
        s2 == [s1 EXCEPT !.memory = Write(s1.memory, address, new)]
    IN  update_status(s2, new)

rotate_right(s, address) ==
    LET c == is_set(s, "Carry")
        old == Read(s.memory, address)
        s1 == set_flag(s, "Carry", Bit(old, 0) = 1)
        new == BitOr(old \div 2, IF c THEN 128 ELSE 0)
        s2 == [s1 EXCEPT !.memory = Write(s1.memory, address, new)]
    IN  update_status(s2, new)

\* branch() adding the operand as an unsigned offset
branch_unsigned_offset(s, condition) ==
    IF condition
    THEN [s EXCEPT !.pc = U16(U16(s.pc + 1) + Read(s.memory, s.pc))]
    ELSE [s EXCEPT !.pc = U16(s.pc + 1)]

branch(s, condition) ==
    IF condition
    THEN LET offset == AsI8(Read(s.memory, s.pc))
             pc1 == U16(s.pc + 1)
         IN  IF offset < 0
             THEN [s EXCEPT !.pc = U16(pc1 - Abs(offset))]
             ELSE [s EXCEPT !.pc = U16(pc1 + offset)]
    ELSE [s EXCEPT !.pc = U16(s.pc + 1)]

\* interrupt() setting Interrupt-disable before it pushes the status
interrupt_disables_before_push(s) ==
    LET s1 == push(s, (s.pc \div 256) % 256)
        s2 == push(s1, s.pc % 256)
        s3 == set_flag(s2, "Interrupt", TRUE)
        s4 == push(s3, s3.status)
        address == Read(s4.memory, IRQ_VECTOR) +
                   256 * Read(s4.memory, IRQ_VECTOR + 1)
    IN  [s4 EXCEPT !.pc = address]

interrupt(s) ==
    LET s1 == push(s, (s.pc \div 256) % 256)
        s2 == push(s1, s.pc % 256)
        s3 == push(s2, s2.status)
        s4 == set_flag(s3, "Interrupt", TRUE)
        address == Read(s4.memory, IRQ_VECTOR) +
                   256 * Read(s4.memory, IRQ_VECTOR + 1)
    IN  [s4 EXCEPT !.pc = address]

\* jsr() pushing the status after the return address, as interrupt() does
jsr_pushes_status(s) ==
    LET r == read_absolute_address(s)
        new_address == r.v
        return_address == U16(r.s.pc - 1)
        s1 == push(r.s, (return_address \div 256) % 256)
        s2 == push(s1, return_address % 256)
        s3 == push(s2, s2.status)
    IN  [s3 EXCEPT !.pc = new_address]

jsr(s) ==
    LET r == read_absolute_address(s)
        new_address == r.v
        return_address == U16(r.s.pc - 1)
        s1 == push(r.s, (return_address \div 256) % 256)
        s2 == push(s1, return_address % 256)
    IN  [s2 EXCEPT !.pc = new_address]

\* ret() returning to the address + 1 from an interrupt too
ret_always_adds_one(s, is_subroutine) ==
    LET r0 == IF ~is_subroutine
              THEN LET p == pop(s) IN [p.s EXCEPT !.status = p.v]
              ELSE s
        r1 == pop(r0)
        lsb == r1.v
        r2 == pop(r1.s)
        msb == r2.v
        exact == 256 * msb + lsb + 1
        s1 == Overflow(r2.s, exact > 65535)
    IN  [s1 EXCEPT !.pc = U16(exact)]

ret(s, is_subroutine) ==
    LET r0 == IF ~is_subroutine
              THEN LET p == pop(s) IN [p.s EXCEPT !.status = p.v]
              ELSE s
        r1 == pop(r0)
        lsb == r1.v
        r2 == pop(r1.s)
        msb == r2.v
        exact == 256 * msb + lsb + (IF is_subroutine THEN 1 ELSE 0)
        s1 == Overflow(r2.s, exact > 65535)
    IN  [s1 EXCEPT !.pc = U16(exact)]

\* compare() taking Negative from bit 7 of the difference
compare_negative_of_difference(s, left, right) ==
    LET s1 == set_flag(s, "Zero", left = right)
        s2 == set_flag(s1, "Carry", left >= right)
    IN  set_flag(s2, "Negative", U8(left - right) >= 128)

compare(s, left, right) ==
    LET s1 == set_flag(s, "Zero", left = right)
        s2 == set_flag(s1, "Carry", left >= right)
    IN  set_flag(s2, "Negative", left >= 128)

\* ------------------------------------------------------------------------
\* execute_instruction: the match on i.mnemonic

\* register loads: self.<reg> = self.read_value(i.mode); update_status
load(s, reg, mode) ==
    LET r == read_value(s, mode)
        s1 == IF reg = "a" THEN [r.s EXCEPT !.a = r.v]
              ELSE IF reg = "x" THEN [r.s EXCEPT !.x = r.v]
              ELSE [r.s EXCEPT !.y = r.v]
    IN  update_status(s1, r.v)

\* self.memory[address] -= 1 / += 1, then update_status
dec_memory(s, mode) ==
    LET r == read_address(s, mode)
        old == Read(r.s.memory, r.v)
        s1 == Overflow(r.s, old = 0)
        new == U8(old - 1)
    IN  update_status([s1 EXCEPT !.memory = Write(s1.memory, r.v, new)], new)

inc_memory(s, mode) ==
    LET r == read_address(s, mode)
        old == Read(r.s.memory, r.v)
        s1 == Overflow(r.s, old = 255)
        new == U8(old + 1)
    IN  update_status([s1 EXCEPT !.memory = Write(s1.memory, r.v, new)], new)

execute_mnemonic(s, i) ==
    LET m == i.mnemonic
        mode == i.mode
    IN  CASE m = "ADC" -> adc(s, mode)
          [] m = "AND" -> and(s, mode)
          [] m = "ASL" ->
                IF mode = "Accumulator"
                THEN LET msb == Bit(s.a, 7) = 1
                         new == U8(s.a * 2)
                     IN  update_status(
                             set_flag([s EXCEPT !.a = new], "Carry", msb), new)
                ELSE LET r == read_address(s, mode)
                     IN  shift_left(r.s, r.v)
          [] m = "BIT" ->
                LET r == read_address(s, mode)
                    operand == Read(r.s.memory, r.v)
                    s1 == set_flag(r.s, "Zero", BitAnd(r.s.a, operand) # 0)
                    s2 == set_flag(s1, "Negative", BitAnd(operand, N_FLAG) # 0)
                IN  set_flag(s2, "Overflow", BitAnd(operand, V_FLAG) # 0)
          [] m = "BPL" -> branch(s, ~is_set(s, "Negative"))
          [] m = "BMI" -> branch(s, is_set(s, "Negative"))
          [] m = "BVC" -> branch(s, ~is_set(s, "Overflow"))
          [] m = "BVS" -> branch(s, is_set(s, "Overflow"))
          [] m = "BCC" -> branch(s, ~is_set(s, "Carry"))
          [] m = "BCS" -> branch(s, is_set(s, "Carry"))
          [] m = "BNE" -> branch(s, ~is_set(s, "Zero"))
          [] m = "BEQ" -> branch(s, is_set(s, "Zero"))
          [] m = "BRK" ->
                LET s1 == set_flag(s, "B", TRUE)
                IN  interrupt([s1 EXCEPT !.pc = U16(s1.pc + 1)])
          [] m = "CMP" -> LET r == read_value(s, mode) IN compare(r.s, r.s.a, r.v)
          [] m = "CPX" -> LET r == read_value(s, mode) IN compare(r.s, r.s.x, r.v)
          [] m = "CPY" -> LET r == read_value(s, mode) IN compare(r.s, r.s.y, r.v)
          [] m = "DEC" -> dec_memory(s, mode)
          [] m = "EOR" ->
                LET r == read_value(s, mode)
                    value == BitXor(r.s.a, r.v)
                IN  update_status([r.s EXCEPT !.a = value], value)
          [] m = "CLC" -> set_flag(s, "Carry", FALSE)
          [] m = "SEC" -> set_flag(s, "Carry", TRUE)
          [] m = "CLI" -> set_flag(s, "Interrupt", FALSE)
          [] m = "SEI" -> set_flag(s, "Interrupt", TRUE)
          [] m = "CLV" -> set_flag(s, "Overflow", FALSE)
          [] m = "CLD" -> set_flag(s, "Decimal", FALSE)
          [] m = "SED" -> set_flag(s, "Decimal", TRUE)
          [] m = "INC" -> inc_memory(s, mode)
          [] m = "JMP" ->
                IF mode = "Absolute"
                THEN LET r == read_absolute_address(s) IN [r.s EXCEPT !.pc = r.v]
                ELSE LET r == read_indirect_address(s) IN [r.s EXCEPT !.pc = r.v]
          [] m = "JSR" -> jsr(s)
          [] m = "LDA" -> load(s, "a", mode)
          [] m = "LDX" -> load(s, "x", mode)
          [] m = "LDY" -> load(s, "y", mode)
          [] m = "LSR" ->
                IF mode = "Accumulator"
                THEN LET lsb == Bit(s.a, 0) = 1
                         new == s.a \div 2
                     IN  update_status(
                             set_flag([s EXCEPT !.a = new], "Carry", lsb), new)
                ELSE LET r == read_address(s, mode)
                     IN  shift_right(r.s, r.v)
          [] m = "NOP" ->
                IF mode # "Implied" THEN read_value(s, mode).s ELSE s
          [] m = "ORA" ->
                LET r == read_value(s, mode)
                    value == BitOr(r.s.a, r.v)
                IN  update_status([r.s EXCEPT !.a = value], value)
          [] m = "TAX" -> update_status([s EXCEPT !.x = s.a], s.a)
          [] m = "TXA" -> update_status([s EXCEPT !.a = s.x], s.x)
          [] m = "DEX" ->
                LET new == U8(s.x - 1)
                IN  update_status([Overflow(s, s.x = 0) EXCEPT !.x = new], new)
          [] m = "INX" ->
                LET new == U8(s.x + 1)
                IN  update_status([Overflow(s, s.x = 255) EXCEPT !.x = new], new)
          [] m = "TAY" -> update_status([s EXCEPT !.y = s.a], s.a)
          [] m = "TYA" -> update_status([s EXCEPT !.a = s.y], s.y)
          [] m = "DEY" ->
                LET new == U8(s.y - 1)
                IN  update_status([Overflow(s, s.y = 0) EXCEPT !.y = new], new)
          [] m = "INY" ->
                LET new == U8(s.y + 1)
                IN  update_status([Overflow(s, s.y = 255) EXCEPT !.y = new], new)
          [] m = "ROL" ->
                IF mode = "Accumulator"
                THEN LET c == is_set(s, "Carry")
                         s1 == set_flag(s, "Carry", Bit(s.a, 7) = 1)
                         new == BitOr(U8(s.a * 2), IF c THEN 1 ELSE 0)
                     IN  update_status([s1 EXCEPT !.a = new], new)
                ELSE LET r == read_address(s, mode)
                     IN  rotate_left(r.s, r.v)
          [] m = "ROR" ->
                IF mode = "Accumulator"
                THEN LET c == is_set(s, "Carry")
                         s1 == set_flag(s, "Carry", Bit(s.a, 0) = 1)
                         new == BitOr(s.a \div 2, IF c THEN 128 ELSE 0)
                     IN  update_status([s1 EXCEPT !.a = new], new)
                ELSE LET r == read_address(s, mode)
                     IN  rotate_right(r.s, r.v)
          [] m = "RTI" -> ret(s, FALSE)
          [] m = "RTS" -> ret(s, TRUE)
          [] m = "SBC" -> sbc(s, mode)
          [] m = "STA" -> store(s, s.a, mode)
          [] m = "TXS" -> update_status([s EXCEPT !.sp = s.x], s.x)
          [] m = "TSX" -> update_status([s EXCEPT !.x = s.sp], s.sp)
          [] m = "PHA" -> push(s, s.a)
          [] m = "PLA" ->
                LET r == pop(s) IN update_status([r.s EXCEPT !.a = r.v], r.v)
          [] m = "PHP" -> push(s, s.status)
          [] m = "PLP" -> LET r == pop(s) IN [r.s EXCEPT !.status = r.v]
          [] m = "STX" -> store(s, s.x, mode)
          [] m = "STY" -> store(s, s.y, mode)
          [] m \in {"XAA", "LAX"} -> [s EXCEPT !.running = FALSE]

\* execute_instruction() passing over an opcode the table does not have
execute_instruction_skips_unknown(s, opcode) ==
    IF opcode \notin DOMAIN INSTRUCTIONS
    THEN s
    ELSE LET i == INSTRUCTIONS[opcode]
         IN  execute_mnemonic([s EXCEPT !.cycles = s.cycles + i.time], i)

\* execute_instruction() treating BRK as an opcode that stops the CPU
execute_instruction_stops_on_brk(s, opcode) ==
    IF opcode \notin DOMAIN INSTRUCTIONS \/ opcode = 0
    THEN [s EXCEPT !.running = FALSE]
    ELSE LET i == INSTRUCTIONS[opcode]
         IN  execute_mnemonic([s EXCEPT !.cycles = s.cycles + i.time], i)

\* execute_instruction() charging one more cycle for a branch that is taken
execute_instruction_branch_penalty(s, opcode) ==
    IF opcode \notin DOMAIN INSTRUCTIONS
    THEN [s EXCEPT !.running = FALSE]
    ELSE LET i == INSTRUCTIONS[opcode]
             r == execute_mnemonic([s EXCEPT !.cycles = s.cycles + i.time], i)
         IN  IF i.mode = "Relative" /\ r.pc # U16(s.pc + 1)
             THEN [r EXCEPT !.cycles = r.cycles + 1]
             ELSE r

execute_instruction(s, opcode) ==
    IF opcode \notin DOMAIN INSTRUCTIONS
    THEN [s EXCEPT !.running = FALSE]
    ELSE LET i == INSTRUCTIONS[opcode]
         IN  execute_mnemonic([s EXCEPT !.cycles = s.cycles + i.time], i)

\* ------------------------------------------------------------------------
\* The public methods

load_vector(s, vector, value) ==
    LET s1 == [s EXCEPT !.memory = Write(s.memory, vector, value % 256)]
    IN  IF vector + 1 > 65535
        THEN Panic(s1)                  \* index out of bounds
        ELSE [s1 EXCEPT !.memory = Write(s1.memory, vector + 1, value \div 256)]

reset_cycle_count(s) == [s EXCEPT !.cycles = 0]

\* step() marking the CPU as running before it executes the instruction
step_sets_running(s) ==
    LET instruction == Read(s.memory, s.pc)
    IN  execute_instruction([s EXCEPT !.pc = U16(s.pc + 1), !.running = TRUE],
                            instruction)

step(s) ==
    LET instruction == Read(s.memory, s.pc)
    IN  execute_instruction([s EXCEPT !.pc = U16(s.pc + 1)], instruction)

\* reset() leaving the stack pointer as it is
reset_keeps_stack_pointer(s) ==
    LET r == read_absolute_address([s EXCEPT !.pc = RESET_VECTOR])
    IN  [r.s EXCEPT !.pc = r.v, !.running = TRUE]

reset(s) ==
    LET r == read_absolute_address([s EXCEPT !.pc = RESET_VECTOR])
    IN  [r.s EXCEPT !.pc = r.v, !.running = TRUE, !.sp = 255]

\* ------------------------------------------------------------------------
\* Calls on the CPU as actions.  A call that returns stores the record it
\* computed; a call that panics leaves the fields and raises panicked.
\* last records the call: its name, its argument, the value it returned,
\* the CPU before it, the number of calls made so far, and the call before
\* it.

NoCall == [op |-> "none", arg |-> 0, ret |-> 0, pre |-> Default, n |-> 0,
           before |-> [op |-> "none", arg |-> 0, pre |-> Default]]

Commit(r, op, arg, returned) ==
    /\ last' = [op |-> op, arg |-> arg, ret |-> returned, pre |-> Self,
                n |-> last.n + 1,
                before |-> [op |-> last.op, arg |-> last.arg,
                            pre |-> last.pre]]
    /\ UNCHANGED overflow_checks
    /\ IF r.panicked
       THEN /\ panicked' = TRUE
            /\ UNCHANGED <<cycles, running, status, pc, sp, a, x, y, memory>>
       ELSE /\ panicked' = FALSE
            /\ cycles' = r.cycles
            /\ running' = r.running
            /\ status' = r.status
            /\ pc' = r.pc
            /\ sp' = r.sp
            /\ a' = r.a
            /\ x' = r.x
            /\ y' = r.y
            /\ memory' = r.memory

\* the CPU is in state s and no call has been made on it
Start(s) ==
    /\ cycles = s.cycles
    /\ running = s.running
    /\ status = s.status
    /\ pc = s.pc
    /\ sp = s.sp
    /\ a = s.a
    /\ x = s.x
    /\ y = s.y
    /\ memory = s.memory
    /\ panicked = FALSE
    /\ last = NoCall

\* memory with the bytes of seq written from address base on
RECURSIVE WriteBytes(_, _, _)
WriteBytes(mem, base, seq) ==
    IF seq = <<>> THEN mem
    ELSE WriteBytes(Write(mem, U16(base), Head(seq)), base + 1, Tail(seq))

\* memory with the byte cells[i][2] written at address cells[i][1], in order
RECURSIVE WriteCells(_, _)
WriteCells(mem, cells) ==
    IF cells = <<>> THEN mem
    ELSE WriteCells(Write(mem, Head(cells)[1], Head(cells)[2]), Tail(cells))

DoStep == Commit(step(Self), "step", Read(memory, pc), 0)

DoReset == Commit(reset(Self), "reset", 0, 0)

DoLoadVector(vector, value) ==
    Commit(load_vector(Self, vector, value), "load_vector",
           <<vector, value>>, 0)

DoResetCycleCount == Commit(reset_cycle_count(Self), "reset_cycle_count", 0, 0)

\* ------------------------------------------------------------------------
\* main.rs: the driver.  It loads a program at RESET, points the reset
\* vector at it, resets the CPU and steps it while it is running, pacing
\* itself on the cycle count.

\* the cycle count at which main() sleeps instead of stepping: it stands
\* for emu_speed = NTSC_SPEED, scaled down
EmuSpeed == 40

\* LDA #$05; STA $00; LDX $00; INX
ProgramLoadStore == <<169, 5, 133, 0, 166, 0, 232>>
\* LDX #$FF; TXS; LDA #$80; PHA; then 0x02, which the table does not have
ProgramHalt == <<162, 255, 154, 169, 128, 72, 2>>
\* INX; BNE -3: counts X up
ProgramCount == <<232, 208, 253>>
\* JSR $0604; 0xFF, which the table does not have; NOP; RTS (at 0x0604 when
\* loaded at 0x0600)
ProgramCall == <<32, 4, 6, 255, 234, 96>>

Programs == {ProgramLoadStore, ProgramHalt, ProgramCount, ProgramCall}

\* the addresses main() may be built to load at (RESET in main.rs is 0x0600)
Bases == {0, 1536, 32768, 65024}

NotInMain == [at |-> "none", RESET |-> 0, buf |-> <<>>, update |-> FALSE]

\* CPU::load_program is called by main.rs and is not among the sources: it
\* copies the bytes to memory from the base address on
load_program(s, base, buf) ==
    [s EXCEPT !.memory = WriteBytes(s.memory, base, buf)]

MainLoadProgram ==
    /\ ~panicked
    /\ main.at = "load_program"
    /\ \E buf \in Programs :
          /\ Commit(load_program(Self, main.RESET, buf), "load_program", buf, 0)
          /\ main' = [main EXCEPT !.at = "load_vector", !.buf = buf]

MainLoadVector ==
    /\ ~panicked
    /\ main.at = "load_vector"
    /\ DoLoadVector(RESET_VECTOR, main.RESET)
    /\ main' = [main EXCEPT !.at = "reset"]

MainReset ==
    /\ ~panicked
    /\ main.at = "reset"
    /\ DoReset
    /\ main' = [main EXCEPT !.at = "loop"]

\* one iteration of the loop that steps
MainStep ==
    /\ ~panicked
    /\ main.at = "loop"
    /\ running
    /\ cycles < EmuSpeed
    /\ DoStep
    /\ main' = [main EXCEPT !.update = FALSE]

\* one iteration of the loop that sleeps
MainSleep ==
    /\ ~panicked
    /\ main.at = "loop"
    /\ running
    /\ ~(cycles < EmuSpeed)
    /\ main' = [main EXCEPT !.update = TRUE]
    /\ UNCHANGED <<cycles, running, status, pc, sp, a, x, y, memory, panicked,
                   overflow_checks, last>>

\* the loop stepping once more when is_running() is false
MainExitStepsOn ==
    /\ ~panicked
    /\ main.at = "loop"
    /\ ~running
    /\ DoStep
    /\ UNCHANGED main

MainExit ==
    /\ ~panicked
    /\ main.at = "loop"
    /\ ~running
    /\ main' = [main EXCEPT !.at = "exit"]
    /\ UNCHANGED <<cycles, running, status, pc, sp, a, x, y, memory, panicked,
                   overflow_checks, last>>

Init ==
    /\ Start(Default)
    /\ overflow_checks \in BOOLEAN
    /\ \E base \in Bases :
          main = [at |-> "load_program", RESET |-> base, buf |-> <<>>,
                  update |-> FALSE]

Next ==
    \/ MainLoadProgram
    \/ MainLoadVector
    \/ MainReset
    \/ MainStep
    \/ MainSleep
    \/ MainExit

Spec == Init /\ [][Next]_vars

\* C2: from a freshly created CPU, with LDA #$05; STA $00; LDX $00; INX
\* loaded at the address the reset vector holds, reset() and four step()
\* calls leave A = 0x05, memory[0] = 0x05, X = 0x06, Zero and Negative clear.
FourStepsOfLoadStore ==
    /\ main.buf = ProgramLoadStore
    /\ last.n = 7
    /\ last.op = "step"

EndToEndLoadStore ==
    FourStepsOfLoadStore =>
        /\ ~panicked
        /\ last.pre.pc = U16(main.RESET + 6)
        /\ a = 5
        /\ Read(memory, 0) = 5
        /\ x = 6
        /\ ~is_set(Self, "Zero")
        /\ ~is_set(Self, "Negative")

EndToEndLoadStoreReached ==
    /\ FourStepsOfLoadStore
    /\ main.RESET = 1536
    /\ a = 5
    /\ x = 6
    /\ Read(memory, 0) = 5

\* ------------------------------------------------------------------------
\* reset() and load_vector() called on a CPU in any state

\* the number of calls made on one CPU
MaxVectorCalls == 2

Words == {0, 4660, 33023, 65535}       \* 0x0000, 0x1234, 0x80FF, 0xFFFF

Vectors == {NMI_VECTOR, RESET_VECTOR, IRQ_VECTOR}

\* CPU states a program can have left behind
UsedCpus ==
    { [cycles |-> c, running |-> r, status |-> st, pc |-> p, sp |-> s,
       a |-> regs[1], x |-> regs[2], y |-> regs[3], memory |-> m,
       panicked |-> FALSE] :
        c \in {0, 7}, r \in BOOLEAN, st \in {0, 255}, p \in {0, 65535},
        s \in {0, 127}, regs \in {<<0, 0, 0>>, <<170, 85, 255>>},
        m \in {EmptyMemory, WriteCells(EmptyMemory, <<<<65532, 52>>, <<65533, 18>>>>)} }

InitReset ==
    /\ \E s \in UsedCpus : Start(s)
    /\ overflow_checks \in BOOLEAN
    /\ main = NotInMain

CallLoadVector ==
    /\ ~panicked
    /\ last.n < MaxVectorCalls
    /\ \E vector \in Vectors, value \in Words : DoLoadVector(vector, value)
    /\ UNCHANGED main

CallReset ==
    /\ ~panicked
    /\ last.n < MaxVectorCalls
    /\ DoReset
    /\ UNCHANGED main

NextReset == CallLoadVector \/ CallReset

SpecReset == InitReset /\ [][NextReset]_vars

\* C1: load_vector(RESET_VECTOR, v) writes v mod 256 and v div 256 to
\* 0xFFFC/0xFFFD, and reset() leaves pc equal to the word the reset vector
\* holds (so v, after load_vector(RESET_VECTOR, v)), sp = 0xFF and running
\* true, whatever the CPU was before.
ResetLoadsVector ==
    /\ (last.op = "load_vector" /\ last.arg[1] = RESET_VECTOR) =>
          /\ ~panicked
          /\ Read(memory, 65532) = last.arg[2] % 256
          /\ Read(memory, 65533) = last.arg[2] \div 256
    /\ last.op = "reset" =>
          /\ ~panicked
          /\ pc = Read(last.pre.memory, 65532) +
                  256 * Read(last.pre.memory, 65533)
          /\ sp = 255
          /\ running
    /\ (/\ last.op = "reset"
        /\ last.before.op = "load_vector"
        /\ last.before.arg[1] = RESET_VECTOR) =>
          pc = last.before.arg[2]

ResetLoadsVectorReached ==
    /\ last.op = "reset"
    /\ last.before.op = "load_vector"
    /\ last.before.arg = <<RESET_VECTOR, 4660>>
    /\ last.pre.running = FALSE
    /\ last.pre.sp = 127
    /\ pc = 4660
    /\ sp = 255
    /\ running

\* ------------------------------------------------------------------------
\* update_status() and set_flag() applied once to every status register

Flags == {"Negative", "Overflow", "B", "Decimal", "Interrupt", "Zero", "Carry"}

InitFlags ==
    /\ \E st \in Byte, used \in BOOLEAN :
          Start(IF used
                THEN [Default EXCEPT
                         !.status = st, !.cycles = 7, !.running = TRUE,
                         !.pc = 65535, !.sp = 127, !.a = 170, !.x = 85,
                         !.y = 255, !.memory = Write(EmptyMemory, 16, 66)]
                ELSE [Default EXCEPT !.status = st])
    /\ overflow_checks \in BOOLEAN
    /\ main = NotInMain

CallUpdateStatus ==
    /\ last.op = "none"
    /\ \E value \in Byte :
          Commit(update_status(Self, value), "update_status", value, 0)
    /\ UNCHANGED main

CallSetFlag ==
    /\ last.op = "none"
    /\ \E f \in Flags, v \in BOOLEAN :
          Commit(set_flag(Self, f, v), "set_flag", <<f, v>>, 0)
    /\ UNCHANGED main

NextFlags == CallUpdateStatus \/ CallSetFlag

SpecFlags == InitFlags /\ [][NextFlags]_vars

\* C3: after update_status(v), Zero is set iff v = 0 and Negative is set
\* iff v >= 0x80, whatever the status register held before.
UpdateStatusSetsZeroAndNegative ==
    last.op = "update_status" =>
        /\ is_set(Self, "Zero") <=> (last.arg = 0)
        /\ is_set(Self, "Negative") <=> (last.arg >= 128)

\* ------------------------------------------------------------------------
\* push() and pop() applied to every stack pointer

\* the number of calls made on one CPU
MaxStackCalls == 2

PushedBytes == {0, 1, 128, 255}

\* a stack page that has been used: bytes at its ends and in the middle
UsedStack ==
    WriteCells(EmptyMemory, <<<<256, 17>>, <<257, 34>>, <<384, 51>>, <<511, 68>>>>)

InitStack ==
    /\ \E s \in Byte, m \in {EmptyMemory, UsedStack} :
          Start([Default EXCEPT !.sp = s, !.memory = m])
    /\ overflow_checks \in BOOLEAN
    /\ main = NotInMain

CallPush ==
    /\ last.n < MaxStackCalls
    /\ \E value \in PushedBytes : Commit(push(Self, value), "push", value, 0)
    /\ UNCHANGED main

CallPop ==
    /\ last.n < MaxStackCalls
    /\ LET r == pop(Self) IN Commit(r.s, "pop", 0, r.v)
    /\ UNCHANGED main

NextStack == CallPush \/ CallPop

SpecStack == InitStack /\ [][NextStack]_vars

\* C5: push(v) immediately followed by pop() returns v and leaves the stack
\* pointer where it was before the push, for every stack pointer (0x00,
\* where the decrement wraps to 0xFF, included).
PushThenPop == last.op = "pop" /\ last.before.op = "push"

PushPopRoundTrip ==
    PushThenPop =>
        /\ ~panicked
        /\ last.ret = last.before.arg
        /\ sp = last.before.pre.sp

PushPopRoundTripReached ==
    /\ PushThenPop
    /\ last.before.pre.sp = 0
    /\ last.pre.sp = 255
    /\ last.before.arg = 128
    /\ last.ret = 128
    /\ sp = 0

\* ------------------------------------------------------------------------
\* One step() of ADC #M for every accumulator, operand and carry

\* where the instruction under test is placed
TestPc == 1536

\* the status register before: the carry, with every other flag clear or set
InitAdc ==
    /\ \E acc \in Byte, operand \in Byte, carry \in {0, 1}, others \in {0, 254} :
          Start([Default EXCEPT
                    !.running = TRUE, !.pc = TestPc, !.sp = 255, !.a = acc,
                    !.status = others + carry,
                    !.memory = WriteBytes(EmptyMemory, TestPc, <<105, operand>>)])
    /\ overflow_checks \in BOOLEAN
    /\ main = NotInMain

StepAdc ==
    /\ last.op = "none"
    /\ DoStep
    /\ UNCHANGED main

NextAdc == StepAdc

SpecAdc == InitAdc /\ [][NextAdc]_vars

\* the operands of the ADC that was stepped
AdcDone == last.op = "step" /\ last.arg = 105
AdcA == last.pre.a
AdcM == Read(last.pre.memory, U16(last.pre.pc + 1))
AdcCarryIn == IF is_set(last.pre, "Carry") THEN 1 ELSE 0
AdcSignedSum == AsI8(AdcA) + AsI8(AdcM) + AdcCarryIn

\* C7: ADC sets Overflow exactly when the signed sum of A, M and the carry
\* lies outside -128..127, which is when A and M have the same sign bit and
\* the 8-bit result has the other; 0x50 + 0x50 gives 0xA0 with Overflow set
\* and Carry clear, and 0x50 + 0xD0 never sets Overflow.
AdcOverflowIsSignedOverflow ==
    AdcDone =>
        /\ ~panicked
        /\ is_set(Self, "Overflow") <=>
              (AdcSignedSum < -128 \/ AdcSignedSum > 127)
        /\ is_set(Self, "Overflow") <=>
              (Bit(AdcA, 7) = Bit(AdcM, 7) /\ Bit(a, 7) # Bit(AdcA, 7))
        /\ (AdcA = 80 /\ AdcM = 80 /\ AdcCarryIn = 0) =>
              (a = 160 /\ is_set(Self, "Overflow") /\ ~is_set(Self, "Carry"))
        /\ (AdcA = 80 /\ AdcM = 208) => ~is_set(Self, "Overflow")

AdcOverflowReached ==
    /\ AdcDone
    /\ AdcA = 80
    /\ AdcM = 80
    /\ AdcCarryIn = 0
    /\ a = 160
    /\ is_set(Self, "Overflow")

\* C8 as stated: ADC with A = 0xD0 and operand 0x90, carry-in clear, sets
\* Carry and clears Overflow.
AdcNegativesDone == AdcDone /\ AdcA = 208 /\ AdcM = 144 /\ AdcCarryIn = 0

AdcNegativesClearOverflow ==
    AdcNegativesDone => (is_set(Self, "Carry") /\ ~is_set(Self, "Overflow"))

\* C8, amended: ADC with A = 0xD0 and operand 0x90, carry-in clear, sets
\* Carry and sets Overflow (the result is 0x60: the signed sum -160 is out
\* of range).
AdcNegativesSetOverflow ==
    AdcNegativesDone =>
        (~panicked /\ is_set(Self, "Carry") /\ is_set(Self, "Overflow") /\ a = 96)

AdcNegativesReached ==
    AdcNegativesDone /\ is_set(Self, "Carry") /\ a = 96

\* C13: ADC leaves the accumulator (A + M + c) mod 256 and sets Carry
\* exactly when A + M + c exceeds 0xFF, for every A, M and carry-in c.
AdcSumAndCarry ==
    AdcDone =>
        /\ ~panicked
        /\ a = (AdcA + AdcM + AdcCarryIn) % 256
        /\ is_set(Self, "Carry") <=> (AdcA + AdcM + AdcCarryIn > 255)

\* 0xFF + 0x00 + 1: the carry-in alone carries out
AdcSumAndCarryReached ==
    /\ AdcDone
    /\ AdcA = 255
    /\ AdcM = 0
    /\ AdcCarryIn = 1
    /\ a = 0
    /\ is_set(Self, "Carry")

\* ------------------------------------------------------------------------
\* One step() of every branch, for every offset

\* BPL, BMI, BVC, BVS, BCC, BCS, BNE, BEQ
BranchOpcodes == {16, 48, 80, 112, 144, 176, 208, 240}

\* where the branch is placed: mid-memory, and so that the program counter
\* after the operand is 0x0000, 0x0001 and 0x0080
BranchPcs == {1536, 65534, 65535, 126}

BranchStatuses == {0, N_FLAG, V_FLAG, Z_FLAG, C_FLAG, 195}

InitBranch ==
    /\ \E opcode \in BranchOpcodes, operand \in Byte, p \in BranchPcs,
          st \in BranchStatuses :
          Start([Default EXCEPT
                    !.running = TRUE, !.pc = p, !.sp = 255, !.status = st,
                    !.memory = WriteBytes(EmptyMemory, p, <<opcode, operand>>)])
    /\ overflow_checks \in BOOLEAN
    /\ main = NotInMain

StepBranch ==
    /\ last.op = "none"
    /\ DoStep
    /\ UNCHANGED main

NextBranch == StepBranch

SpecBranch == InitBranch /\ [][NextBranch]_vars

BranchDone == last.op = "step" /\ last.arg \in BranchOpcodes

\* the program counter after the operand byte, and the signed offset
BranchQ == U16(last.pre.pc + 2)
BranchD == AsI8(Read(last.pre.memory, U16(last.pre.pc + 1)))

\* the condition of the branch on the status register before the step: the
\* flag it tests and the value it branches on
BranchTaken ==
    LET st == last.pre.status
        opcode == last.arg
    IN  CASE opcode = 16  -> Bit(st, 7) = 0      \* BPL
          [] opcode = 48  -> Bit(st, 7) = 1      \* BMI
          [] opcode = 80  -> Bit(st, 6) = 0      \* BVC
          [] opcode = 112 -> Bit(st, 6) = 1      \* BVS
          [] opcode = 144 -> Bit(st, 0) = 0      \* BCC
          [] opcode = 176 -> Bit(st, 0) = 1      \* BCS
          [] opcode = 208 -> Bit(st, 1) = 0      \* BNE
          [] opcode = 240 -> Bit(st, 1) = 1      \* BEQ

\* C9: a branch whose condition holds leaves pc = (Q + d) mod 65536, Q the
\* program counter after the operand byte and d the operand as a signed
\* 8-bit offset; one whose condition does not hold leaves pc = Q; neither
\* raises an error.
BranchAddsSignedOffset ==
    BranchDone =>
        /\ ~panicked
        /\ BranchD \in -128..127
        /\ BranchTaken => pc = (BranchQ + BranchD) % 65536
        /\ ~BranchTaken => pc = BranchQ

BranchWrapsBelowZero ==
    /\ BranchDone
    /\ BranchTaken
    /\ BranchQ = 0
    /\ BranchD = -1
    /\ pc = 65535
    /\ ~panicked

\* ------------------------------------------------------------------------
\* step() on single instructions placed in memory: JMP (indirect), JSR to an
\* RTS, and the opcodes the table does not have

\* the number of step() calls made on one CPU
MaxSteps == 2

\* JMP ($ptr) at TestPc; the bytes the pointer may be read through are all
\* different: at ptr, at ptr + 1, at the start of the pointer's page and at
\* the pointer's offset in the next page
JmpPointers == {767, 512, 9152, 255, 65535, 65280}
              \* 0x02FF, 0x0200, 0x23C0, 0x00FF, 0xFFFF, 0xFF00

JmpMemory(ptr) ==
    LET low == ptr % 256
        high == ptr \div 256
    IN  WriteBytes(
            WriteCells(EmptyMemory,
                       << <<256 * U8(high + 1) + low, 68>>,
                          <<256 * high, 51>>,
                          <<U16(ptr + 1), 34>>,
                          <<ptr, 17>> >>),
            TestPc, <<108, low, high>>)

InitJmp ==
    \E ptr \in JmpPointers, s \in {255, 0} :
        Start([Default EXCEPT !.running = TRUE, !.pc = TestPc, !.sp = s,
                              !.memory = JmpMemory(ptr)])

\* JSR target at p, RTS at target
JsrPcs == {0, 1536, 65532, 65533}          \* 0x0000, 0x0600, 0xFFFC, 0xFFFD
JsrTargets == {3, 1792, 32768}             \* 0x0003, 0x0700, 0x8000
JsrStackPointers == {255, 128, 1, 0}

InitJsr ==
    \E p \in JsrPcs, target \in JsrTargets, s \in JsrStackPointers,
       st \in {0, 255} :
        Start([Default EXCEPT
                  !.running = TRUE, !.pc = p, !.sp = s, !.status = st,
                  !.memory = WriteBytes(Write(EmptyMemory, target, 96), p,
                                        <<32, target % 256, target \div 256>>)])

\* an opcode the table does not have, in CPUs with nothing and with
\* everything set
IllegalOpcodes == Byte \ DOMAIN INSTRUCTIONS

InitIllegal ==
    \E opcode \in IllegalOpcodes, p \in {TestPc, 65535}, r \in BOOLEAN,
       fill \in {0, 255}, c \in {0, 9} :
        Start([Default EXCEPT
                  !.running = r, !.pc = p, !.cycles = c,
                  !.sp = fill, !.a = fill, !.x = fill, !.y = fill,
                  !.status = fill,
                  !.memory = WriteBytes(EmptyMemory, p, <<opcode, fill>>)])

\* BRK (opcode 0x00) at p with the IRQ vector set; p may lie in the stack
\* page and on the vector itself
BrkPcs == {0, 1536, 509, 65534, 65535}     \* 0x0000, 0x0600, 0x01FD, 0xFFFE, 0xFFFF
BrkStackPointers == {255, 2, 1, 0}
BrkStatuses == {0, 4, 235, 255}            \* none, I, all but B and I, all
IrqTargets == {0, 52, 4608, 4660}          \* 0x0000, 0x0034, 0x1200, 0x1234

InitBrk ==
    \E p \in BrkPcs, s \in BrkStackPointers, st \in BrkStatuses,
       target \in IrqTargets :
        Start([Default EXCEPT
                  !.running = TRUE, !.pc = p, !.sp = s, !.status = st,
                  !.memory = WriteBytes(EmptyMemory, IRQ_VECTOR,
                                        <<target % 256, target \div 256>>)])

InitStep ==
    /\ InitJmp \/ InitJsr \/ InitIllegal \/ InitBrk
    /\ overflow_checks \in BOOLEAN
    /\ main = NotInMain

StepTest ==
    /\ ~panicked
    /\ last.n < MaxSteps
    /\ DoStep
    /\ UNCHANGED main

NextStep == StepTest

SpecStep == InitStep /\ [][NextStep]_vars

\* C4: JMP indirect through a pointer 0xHHFF takes the low byte of the new
\* pc from 0xHHFF and the high byte from 0xHH00.
JmpIndirectDone == last.op = "step" /\ last.arg = 108
JmpPointer ==
    Read(last.pre.memory, U16(last.pre.pc + 1)) +
    256 * Read(last.pre.memory, U16(last.pre.pc + 2))

JmpIndirectStaysInPage ==
    (JmpIndirectDone /\ JmpPointer % 256 = 255) =>
        pc = Read(last.pre.memory, JmpPointer) +
             256 * Read(last.pre.memory, JmpPointer - 255)

\* C6: a JSR at P to A leaves pc = A; when the RTS follows it at once, the
\* RTS leaves pc = P + 3 (mod 65536) and the stack pointer as it was before
\* the JSR.
JsrDone == last.op = "step" /\ last.arg = 32
JsrOperand(s) ==
    Read(s.memory, U16(s.pc + 1)) + 256 * Read(s.memory, U16(s.pc + 2))
RtsAfterJsr ==
    /\ last.op = "step" /\ last.arg = 96
    /\ last.before.op = "step" /\ last.before.arg = 32

JsrRtsRoundTrip ==
    /\ JsrDone => (~panicked /\ pc = JsrOperand(last.pre))
    /\ RtsAfterJsr =>
          /\ ~panicked
          /\ pc = U16(last.before.pre.pc + 3)
          /\ sp = last.before.pre.sp

\* C10: step() on an opcode the table does not have raises no error, clears
\* running, advances pc by one and changes nothing else.
IllegalDone == last.op = "step" /\ last.arg \notin DOMAIN INSTRUCTIONS

IllegalOpcodeHalts ==
    IllegalDone =>
        /\ ~panicked
        /\ ~running
        /\ pc = U16(last.pre.pc + 1)
        /\ a = last.pre.a
        /\ x = last.pre.x
        /\ y = last.pre.y
        /\ sp = last.pre.sp
        /\ status = last.pre.status
        /\ memory = last.pre.memory
        /\ cycles = last.pre.cycles

IllegalOpcodeHaltsReached ==
    /\ IllegalDone
    /\ last.pre.running
    /\ last.pre.pc = 65535
    /\ last.pre.cycles = 9
    /\ last.pre.a = 255
    /\ ~running
    /\ pc = 0

\* ------------------------------------------------------------------------
\* step() on every opcode of the table, and reset_cycle_count() between
\* steps

\* the number of calls made on one CPU
MaxOpCalls == 2

\* the operand bytes after the opcode: a zero-page address and an absolute
\* address whose indexing stays in the page, and ones whose indexing by 1
\* crosses into the next page; 0x10 also serves as a forward and 0xFF as a
\* backward branch offset
OperandBytes == {<<16, 2>>, <<255, 2>>}

\* every register holding the same byte: 0, 1 or 0xFF
RegisterFills == {0, 1, 255}

\* opcode at TestPc in a running CPU that has just been created and reset
InitOps ==
    /\ \E opcode \in DOMAIN INSTRUCTIONS, operand \in OperandBytes,
          fill \in RegisterFills, st \in {0, 255} :
          Start([Default EXCEPT
                    !.running = TRUE, !.pc = TestPc, !.sp = 255,
                    !.a = fill, !.x = fill, !.y = fill, !.status = st,
                    !.memory = WriteBytes(EmptyMemory, TestPc,
                                          <<opcode>> \o operand)])
    /\ overflow_checks \in BOOLEAN
    /\ main = NotInMain

StepOps ==
    /\ ~panicked
    /\ last.n < MaxOpCalls
    /\ DoStep
    /\ UNCHANGED main

ResetCycleCountOps ==
    /\ ~panicked
    /\ last.n < MaxOpCalls
    /\ DoResetCycleCount
    /\ UNCHANGED main

NextOps == StepOps \/ ResetCycleCountOps

SpecOps == InitOps /\ [][NextOps]_vars

\* the mnemonics the table may name that are left unemulated
Unemulated == {"XAA", "LAX"}

\* C11: a step() of a running CPU that fetches an opcode the table has for
\* a documented mnemonic leaves running true.
DocumentedDone ==
    /\ last.op = "step"
    /\ last.pre.running
    /\ last.arg \in DOMAIN INSTRUCTIONS
    /\ INSTRUCTIONS[last.arg].mnemonic \notin Unemulated

DocumentedOpcodeKeepsRunning == DocumentedDone => running

\* a BRK that was stepped to the end: the CPU runs on at the IRQ vector
DocumentedOpcodeKeepsRunningReached ==
    /\ DocumentedDone
    /\ last.arg = 0
    /\ ~panicked
    /\ running
    /\ sp = 252

\* the base cycle cost the table declares for an opcode; an opcode the
\* table does not have is not dispatched
Cost(opcode) ==
    IF opcode \in DOMAIN INSTRUCTIONS THEN INSTRUCTIONS[opcode].time ELSE 0

\* C12: the cycle count after step() calls is the sum of the table's base
\* costs of the opcodes dispatched since creation or since the last
\* reset_cycle_count(), whether or not a branch was taken or an index
\* crossed a page; a step() never lowers it, and reset_cycle_count() sets
\* it to 0.
CyclesAreSumOfBaseCosts ==
    /\ last.op = "reset_cycle_count" => cycles = 0
    /\ (last.op = "step" /\ ~panicked) =>
          /\ cycles = last.pre.cycles + Cost(last.arg)
          /\ cycles >= last.pre.cycles
          /\ last.before.op = "none" => cycles = Cost(last.arg)
          /\ last.before.op = "reset_cycle_count" => cycles = Cost(last.arg)
          /\ last.before.op = "step" =>
                cycles = last.before.pre.cycles +
                         Cost(last.before.arg) + Cost(last.arg)

\* BNE taken forward by 0x10, then the BRK found there: 3 + 7 cycles
CyclesAreSumOfBaseCostsReached ==
    /\ last.op = "step" /\ last.arg = 0
    /\ last.before.op = "step" /\ last.before.arg = 208
    /\ last.pre.pc = TestPc + 2 + 16
    /\ ~panicked
    /\ cycles = 10

\* ------------------------------------------------------------------------
\* One step() of SBC #M for every accumulator, operand and carry

InitSbc ==
    /\ \E acc \in Byte, operand \in Byte, carry \in {0, 1} :
          Start([Default EXCEPT
                    !.running = TRUE, !.pc = TestPc, !.sp = 255, !.a = acc,
                    !.status = carry,
                    !.memory = WriteBytes(EmptyMemory, TestPc, <<233, operand>>)])
    /\ overflow_checks \in BOOLEAN
    /\ main = NotInMain

StepSbc ==
    /\ last.op = "none"
    /\ DoStep
    /\ UNCHANGED main

NextSbc == StepSbc

SpecSbc == InitSbc /\ [][NextSbc]_vars

\* the operands of the SBC that was stepped
SbcDone == last.op = "step" /\ last.arg = 233
SbcA == last.pre.a
SbcM == Read(last.pre.memory, U16(last.pre.pc + 1))
SbcCarryIn == IF is_set(last.pre, "Carry") THEN 1 ELSE 0

\* C14: SBC completes for every A, M and carry-in c and leaves the
\* accumulator (A - M - (1 - c)) mod 256.
SbcSubtractsBorrow ==
    SbcDone =>
        /\ ~panicked
        /\ a = (SbcA - SbcM - (1 - SbcCarryIn)) % 256

\* C15: after SBC, Carry is set exactly when (A | 0x100) - M exceeds 0xFF,
\* which is when A >= M.
SbcCarryIsNoBorrow ==
    (SbcDone /\ ~panicked) =>
        /\ is_set(Self, "Carry") <=> ((SbcA + 256) - SbcM > 255)
        /\ SbcCarryIn = 1 => (is_set(Self, "Carry") <=> SbcA >= SbcM)

\* ------------------------------------------------------------------------
\* step() on one instruction whose operand is placed where its addressing
\* mode finds it

\* the operand bytes used: zero-page address 0x10, absolute address 0x0234,
\* and 0x0300 as the pointer kept in the zero page
FixtureZp == 16
FixtureAbsolute == 564
FixturePointer == 768

\* where the operand of the instruction lies, with index registers xr, yr
FixtureAddress(opcode, xr, yr) ==
    LET mode == INSTRUCTIONS[opcode].mode
    IN  CASE mode = "Immediate" -> TestPc + 1
          [] mode = "Zero" -> FixtureZp
          [] mode = "ZeroX" -> U8(FixtureZp + xr)
          [] mode = "ZeroY" -> U8(FixtureZp + yr)
          [] mode = "Absolute" -> FixtureAbsolute
          [] mode = "AbsoluteX" -> FixtureAbsolute + xr
          [] mode = "AbsoluteY" -> FixtureAbsolute + yr
          [] mode = "IndirectX" -> FixturePointer
          [] mode = "IndirectY" -> FixturePointer + yr

\* memory holding the instruction at TestPc and value as its operand
Fixture(opcode, value, xr, yr) ==
    LET mode == INSTRUCTIONS[opcode].mode
        code ==
            CASE mode = "Immediate" -> <<opcode, value>>
              [] mode \in {"Absolute", "AbsoluteX", "AbsoluteY"} ->
                    <<opcode, FixtureAbsolute % 256, FixtureAbsolute \div 256>>
              [] OTHER -> <<opcode, FixtureZp>>
        pointer ==
            CASE mode = "IndirectX" ->
                    << <<U8(FixtureZp + xr), FixturePointer % 256>>,
                       <<U8(FixtureZp + xr + 1), FixturePointer \div 256>> >>
              [] mode = "IndirectY" ->
                    << <<FixtureZp, FixturePointer % 256>>,
                       <<FixtureZp + 1, FixturePointer \div 256>> >>
              [] OTHER -> <<>>
    IN  WriteBytes(
            WriteCells(EmptyMemory,
                       pointer \o << <<FixtureAddress(opcode, xr, yr), value>> >>),
            TestPc, code)

\* the operand the stepped instruction found
FixtureOperand ==
    Read(last.pre.memory, FixtureAddress(last.arg, last.pre.x, last.pre.y))

\* the bytes at the edges of the unsigned and of the signed range
EdgeBytes == {0, 1, 127, 128, 255}

\* the values of an index register
IndexBytes == {0, 1, 255}

\* ------------------------------------------------------------------------
\* One step() of CMP, CPX and CPY in every addressing mode: every pair of
\* bytes in the immediate forms, the edge bytes in the memory forms

CompareOpcodes ==
    {op \in DOMAIN INSTRUCTIONS :
        INSTRUCTIONS[op].mnemonic \in {"CMP", "CPX", "CPY"}}

\* the CPU with left in the register the opcode compares and idx in the
\* other two
CompareCpu(opcode, left, right, idx, st) ==
    LET m == INSTRUCTIONS[opcode].mnemonic
        xr == IF m = "CPX" THEN left ELSE idx
        yr == IF m = "CPY" THEN left ELSE idx
    IN  [Default EXCEPT
            !.running = TRUE, !.pc = TestPc, !.sp = 255, !.status = st,
            !.a = IF m = "CMP" THEN left ELSE idx, !.x = xr, !.y = yr,
            !.memory = Fixture(opcode, right, xr, yr)]

InitCompare ==
    /\ \E opcode \in CompareOpcodes :
          LET immediate == INSTRUCTIONS[opcode].mode = "Immediate"
          IN  \E left \in (IF immediate THEN Byte ELSE EdgeBytes),
                 right \in (IF immediate THEN Byte ELSE EdgeBytes),
                 idx \in (IF immediate THEN {1} ELSE IndexBytes),
                 st \in {0, 255} :
                  Start(CompareCpu(opcode, left, right, idx, st))
    /\ overflow_checks \in BOOLEAN
    /\ main = NotInMain

StepCompare ==
    /\ last.op = "none"
    /\ DoStep
    /\ UNCHANGED main

NextCompare == StepCompare

SpecCompare == InitCompare /\ [][NextCompare]_vars

CompareDone == last.op = "step" /\ last.arg \in CompareOpcodes

\* the register the stepped opcode compares
CompareLeft ==
    LET m == INSTRUCTIONS[last.arg].mnemonic
    IN  IF m = "CMP" THEN last.pre.a
        ELSE IF m = "CPX" THEN last.pre.x
        ELSE last.pre.y

\* C16: CMP, CPX and CPY with register value L and fetched operand R set
\* Zero iff L = R, Carry iff L >= R and Negative iff bit 7 of L is set, and
\* leave the registers and memory as they were.
CompareSetsFlags ==
    CompareDone =>
        /\ ~panicked
        /\ is_set(Self, "Zero") <=> (CompareLeft = FixtureOperand)
        /\ is_set(Self, "Carry") <=> (CompareLeft >= FixtureOperand)
        /\ is_set(Self, "Negative") <=> (Bit(CompareLeft, 7) = 1)
        /\ a = last.pre.a
        /\ x = last.pre.x
        /\ y = last.pre.y
        /\ sp = last.pre.sp
        /\ memory = last.pre.memory

\* CMP ($10),Y with A = 0x80 against 0xFF: Negative from A, Carry clear
CompareSetsFlagsReached ==
    /\ CompareDone
    /\ last.arg = 209
    /\ last.pre.y = 255
    /\ CompareLeft = 128
    /\ FixtureOperand = 255
    /\ last.pre.status = 0
    /\ status = N_FLAG

\* ------------------------------------------------------------------------
\* One step() of LSR, ROL and ROR on the accumulator and on memory, for
\* every byte and both values of Carry

ShiftOpcodes ==
    {op \in DOMAIN INSTRUCTIONS :
        INSTRUCTIONS[op].mnemonic \in {"LSR", "ROL", "ROR"}}

OnAccumulator(opcode) == INSTRUCTIONS[opcode].mode = "Accumulator"

\* the CPU with value in the target of the opcode and idx in the registers
\* that are not the target
ShiftCpu(opcode, value, idx, st) ==
    [Default EXCEPT
        !.running = TRUE, !.pc = TestPc, !.sp = 255, !.status = st,
        !.a = IF OnAccumulator(opcode) THEN value ELSE idx,
        !.x = idx, !.y = idx,
        !.memory = IF OnAccumulator(opcode)
                   THEN WriteBytes(EmptyMemory, TestPc, <<opcode>>)
                   ELSE Fixture(opcode, value, idx, idx)]

InitShift ==
    /\ \E opcode \in ShiftOpcodes, value \in Byte, idx \in IndexBytes,
          carry \in {0, 1}, others \in {0, 254} :
          Start(ShiftCpu(opcode, value, idx, others + carry))
    /\ overflow_checks \in BOOLEAN
    /\ main = NotInMain

StepShift ==
    /\ last.op = "none"
    /\ DoStep
    /\ UNCHANGED main

NextShift == StepShift

SpecShift == InitShift /\ [][NextShift]_vars

\* the stepped instruction, its target before and after, and Carry before
ShiftDone(m) ==
    /\ last.op = "step"
    /\ last.arg \in ShiftOpcodes
    /\ INSTRUCTIONS[last.arg].mnemonic = m
ShiftBefore ==
    IF OnAccumulator(last.arg) THEN last.pre.a ELSE FixtureOperand
ShiftAfter ==
    IF OnAccumulator(last.arg) THEN a
    ELSE Read(memory, FixtureAddress(last.arg, last.pre.x, last.pre.y))
ShiftCarryIn == IF is_set(last.pre, "Carry") THEN 1 ELSE 0

\* C17: LSR on the accumulator or on a memory byte holding v leaves
\* v div 2 in the target and sets Carry to bit 0 of v.
LsrShiftsBitZeroIntoCarry ==
    ShiftDone("LSR") =>
        /\ ~panicked
        /\ ShiftAfter = ShiftBefore \div 2
        /\ is_set(Self, "Carry") <=> (ShiftBefore % 2 = 1)

StackAddress(s) == 256 * STACK_PAGE + U8(s)

\* C19: a JSR at P with stack pointer s pushes R = P + 2, high byte at
\* 0x0100 | s and low byte at 0x0100 | (s - 1), leaves the stack pointer
\* s - 2 (mod 256) and pc the operand.
JsrReturnAddress == U16(last.pre.pc + 2)

JsrPushesReturnAddress ==
    JsrDone =>
        /\ ~panicked
        /\ Read(memory, StackAddress(last.pre.sp)) = JsrReturnAddress \div 256
        /\ Read(memory, StackAddress(last.pre.sp - 1)) = JsrReturnAddress % 256
        /\ sp = U8(last.pre.sp - 2)
        /\ pc = JsrOperand(last.pre)

\* the same for the JSR steps that return
JsrPushesReturnAddressIfReturns ==
    (JsrDone /\ ~panicked) =>
        /\ Read(memory, StackAddress(last.pre.sp)) = JsrReturnAddress \div 256
        /\ Read(memory, StackAddress(last.pre.sp - 1)) = JsrReturnAddress % 256
        /\ sp = U8(last.pre.sp - 2)
        /\ pc = JsrOperand(last.pre)

\* C20: BRK at P with stack pointer s and status S sets Break, advances pc
\* to P + 2, pushes the pc's high byte at 0x0100 | s and its low byte at
\* 0x0100 | (s - 1), pushes the status with Break set and Interrupt-disable
\* as it was at 0x0100 | (s - 2), then sets Interrupt-disable and loads pc
\* from the IRQ vector; the stack pointer ends at s - 3 (mod 256).
BrkDone == last.op = "step" /\ last.arg = 0
BrkReturnAddress == U16(last.pre.pc + 2)
BrkPushedStatus == BitOr(last.pre.status, B_FLAG)

BrkEntersInterrupt ==
    BrkDone =>
        /\ ~panicked
        /\ Read(memory, StackAddress(last.pre.sp)) = BrkReturnAddress \div 256
        /\ Read(memory, StackAddress(last.pre.sp - 1)) = BrkReturnAddress % 256
        /\ Read(memory, StackAddress(last.pre.sp - 2)) = BrkPushedStatus
        /\ status = BitOr(BrkPushedStatus, I_FLAG)
        /\ pc = Read(last.pre.memory, IRQ_VECTOR) +
                256 * Read(last.pre.memory, IRQ_VECTOR + 1)
        /\ sp = U8(last.pre.sp - 3)
        /\ \A addr \in DOMAIN memory \cup DOMAIN last.pre.memory :
              addr \notin {StackAddress(last.pre.sp - k) : k \in 0..2} =>
                  Read(memory, addr) = Read(last.pre.memory, addr)

\* BRK at 0xFFFF with stack pointer 1 and Interrupt-disable clear: the
\* return address 0x0001 and the status wrap around the stack page
BrkEntersInterruptReached ==
    /\ BrkDone
    /\ last.pre.pc = 65535
    /\ last.pre.sp = 1
    /\ last.pre.status = 235
    /\ Read(memory, 257) = 0
    /\ Read(memory, 256) = 1
    /\ Read(memory, 511) = 251
    /\ status = 255
    /\ sp = 254
    /\ pc = 52

\* ------------------------------------------------------------------------
\* The stack page: one step() of each instruction that pushes or pops, for
\* every stack pointer, and a run of push() calls around the page

\* PHA, PHP, JSR, BRK push; PLA, PLP, RTS, RTI pop
PushOpcodes == {72, 8, 32, 0}
PopOpcodes == {104, 40, 96, 64}

\* the byte at offset i of a stack page in which neighbours differ and no
\* byte is 0, as every byte outside the page is
StackByte(i) == IF i = 0 THEN 128 ELSE i

\* a stack page of such bytes, and one in which every byte is 0xFF
StackPages ==
    {[addr \in 256..511 |-> StackByte(addr - 256)],
     [addr \in 256..511 |-> 255]}

\* the opcode at TestPc with the operand of a JSR after it, the IRQ vector
\* for BRK, and the registers PHA and PHP push
InitStackOp ==
    \E opcode \in PushOpcodes \cup PopOpcodes, s \in Byte, page \in StackPages :
        Start([Default EXCEPT
                  !.running = TRUE, !.pc = TestPc, !.sp = s,
                  !.a = 90, !.status = 195,
                  !.memory = WriteBytes(
                                 WriteBytes(page, TestPc, <<opcode, 0, 7>>),
                                 IRQ_VECTOR, <<52, 18>>)])

\* the number of push() calls in a run
MaxPushRun == 257

\* the stack pointers a run starts from
RunStarts == {255, 128, 0}

\* a CPU as constructed, not running, with empty memory; its accumulator,
\* which push() leaves alone, holds the stack pointer the run starts from
InitPushRun ==
    \E s \in RunStarts : Start([Default EXCEPT !.sp = s, !.a = s])

InitStackPage ==
    /\ InitStackOp \/ InitPushRun
    /\ overflow_checks \in BOOLEAN
    /\ main = NotInMain

StepStackOp ==
    /\ running
    /\ last.op = "none"
    /\ DoStep
    /\ UNCHANGED main

\* the byte the n-th push of a run pushes: never the byte the push one lap
\* earlier left in the same place
RunByte(n) == U8(n + 1 + (n \div 256))

RunPush ==
    /\ ~running
    /\ last.n < MaxPushRun
    /\ Commit(push(Self, RunByte(last.n)), "push", RunByte(last.n), 0)
    /\ UNCHANGED main

NextStackPage == StepStackOp \/ RunPush

SpecStackPage == InitStackPage /\ [][NextStackPage]_vars

\* the byte k places above the stack pointer before the stepped instruction
Stacked(k) == Read(last.pre.memory, StackAddress(last.pre.sp + k))

StackOpDone(opcode) ==
    last.op = "step" /\ last.arg = opcode /\ last.pre.pc = TestPc

\* C21: RTI with stack pointer s pops the status, then the pc's low byte,
\* then its high byte, and adds nothing; RTS pops the low then the high
\* byte, sets pc to the popped address plus 1 and leaves the status.
ReturnPopsInOrder ==
    /\ StackOpDone(64) =>
          /\ ~panicked
          /\ status = Stacked(1)
          /\ pc = Stacked(2) + 256 * Stacked(3)
          /\ sp = U8(last.pre.sp + 3)
    /\ StackOpDone(96) =>
          /\ ~panicked
          /\ pc = U16(Stacked(1) + 256 * Stacked(2) + 1)
          /\ status = last.pre.status
          /\ sp = U8(last.pre.sp + 2)

\* the same for the RTI and RTS steps that return
ReturnPopsInOrderIfReturns == panicked \/ ReturnPopsInOrder

\* the addresses at which two memories differ
Changed(mem1, mem2) ==
    {addr \in DOMAIN mem1 \cup DOMAIN mem2 : Read(mem1, addr) # Read(mem2, addr)}

StackPageAddresses == {256 * STACK_PAGE + i : i \in Byte}

\* the number of bytes an instruction pushes (negative: pops)
StackMoves(opcode) ==
    CASE opcode \in {72, 8} -> 1
      [] opcode = 32 -> 2
      [] opcode = 0 -> 3
      [] opcode \in {104, 40} -> -1
      [] opcode = 96 -> -2
      [] opcode = 64 -> -3

Min(m, n) == IF m < n THEN m ELSE n

\* C22: every push writes at 0x0100 | SP and then decrements SP modulo
\* 256, every pop increments SP modulo 256 and then reads at 0x0100 | SP,
\* so neither leaves the stack page; after 256 pushes SP is where it
\* started and the next push overwrites the first byte pushed, without
\* error.
StackStaysInPage ==
    /\ \A opcode \in PushOpcodes :
          StackOpDone(opcode) =>
              /\ ~panicked
              /\ Changed(memory, last.pre.memory) \subseteq
                    {StackAddress(last.pre.sp - k) :
                        k \in 0..(StackMoves(opcode) - 1)}
              /\ sp = U8(last.pre.sp - StackMoves(opcode))
              /\ opcode = 72 => Read(memory, StackAddress(last.pre.sp)) = last.pre.a
              /\ opcode = 8 =>
                    Read(memory, StackAddress(last.pre.sp)) = last.pre.status
    /\ \A opcode \in PopOpcodes :
          (StackOpDone(opcode) /\ ~panicked) =>
              /\ memory = last.pre.memory
              /\ sp = U8(last.pre.sp - StackMoves(opcode))
              /\ opcode = 104 => a = Stacked(1)
              /\ opcode = 40 => status = Stacked(1)
              /\ opcode = 96 =>
                    pc = U16(Stacked(1) + 256 * Stacked(2) + 1)
              /\ opcode = 64 =>
                    (status = Stacked(1) /\ pc = Stacked(2) + 256 * Stacked(3))
    /\ last.op = "push" =>
          /\ ~panicked
          /\ sp = U8(a - last.n)
          /\ DOMAIN memory \subseteq StackPageAddresses
          /\ \A k \in 0..(Min(last.n, 256) - 1) :
                Read(memory, StackAddress(sp + 1 + k)) = RunByte(last.n - 1 - k)

\* 257 pushes from stack pointer 0: the last one has overwritten the first
\* byte pushed, at 0x0100
StackStaysInPageReached ==
    /\ last.op = "push"
    /\ last.n = 257
    /\ a = 0
    /\ last.pre.sp = 0
    /\ sp = 255
    /\ Read(last.pre.memory, 256) = 1
    /\ Read(memory, 256) = 2

\* ------------------------------------------------------------------------
\* JMP indirect away from the end of a page (under SpecStep)

\* C23: JMP indirect through a pointer p whose low byte is not 0xFF takes
\* the low byte of the new pc from p and the high byte from p + 1.
JmpIndirectReadsWord ==
    (JmpIndirectDone /\ JmpPointer % 256 # 255) =>
        /\ ~panicked
        /\ pc = Read(last.pre.memory, JmpPointer) +
                256 * Read(last.pre.memory, JmpPointer + 1)

\* ------------------------------------------------------------------------
\* One step() of LDA and STA in the absolute and the indirect addressing
\* modes, with operands and indexes whose sums pass the end of the address
\* space and of the zero page

AddressOpcodes ==
    {op \in DOMAIN INSTRUCTIONS :
        /\ INSTRUCTIONS[op].mnemonic \in {"LDA", "STA"}
        /\ INSTRUCTIONS[op].mode \in
              {"Absolute", "AbsoluteX", "AbsoluteY", "IndirectX", "IndirectY"}}

\* memory in which the low pages and the top page hold bytes that differ
\* from their neighbours and from the bytes a page away
Background ==
    [addr \in (0..1023) \cup (65280..65535) |->
        1 + (((addr % 256) * 3 + (addr \div 256) * 5) % 251)]

\* the 16-bit operands, the zero-page operands and the pointers kept in
\* the zero page
AbsoluteOperands == {564, 255, 65408, 65535}     \* 0x0234, 0x00FF, 0xFF80, 0xFFFF
ZpOperands == {16, 128, 254, 255}
ZpPointers == {768, 65408, 65535}                \* 0x0300, 0xFF80, 0xFFFF
AddressIndexes == {0, 1, 128, 255}

\* the instruction at TestPc; in the indirect modes the pointer word lies
\* at the zero-page address the mode selects and the one after it in the
\* zero page
AddressMemory(opcode, word, zp, pointer, idx) ==
    LET mode == INSTRUCTIONS[opcode].mode
        at == IF mode = "IndirectX" THEN U8(zp + idx) ELSE zp
    IN  IF mode \in {"IndirectX", "IndirectY"}
        THEN WriteBytes(
                 WriteCells(Background,
                            << <<at, pointer % 256>>,
                               <<U8(at + 1), pointer \div 256>> >>),
                 TestPc, <<opcode, zp>>)
        ELSE WriteBytes(Background, TestPc,
                        <<opcode, word % 256, word \div 256>>)

InitAddress ==
    /\ \E opcode \in AddressOpcodes, word \in AbsoluteOperands,
          zp \in ZpOperands, pointer \in ZpPointers, idx \in AddressIndexes :
          Start([Default EXCEPT
                    !.running = TRUE, !.pc = TestPc, !.sp = 255,
                    !.a = 165, !.x = idx, !.y = idx,
                    !.memory = AddressMemory(opcode, word, zp, pointer, idx)])
    /\ overflow_checks \in BOOLEAN
    /\ main = NotInMain

StepAddress ==
    /\ last.op = "none"
    /\ DoStep
    /\ UNCHANGED main

NextAddress == StepAddress

SpecAddress == InitAddress /\ [][NextAddress]_vars

\* the stepped instruction is one of mnemonic LDA or STA in one of modes
AddressDone(modes) ==
    /\ last.op = "step"
    /\ last.arg \in AddressOpcodes
    /\ INSTRUCTIONS[last.arg].mode \in modes

\* the byte and the little-endian word after the opcode
OperandByte == Read(last.pre.memory, U16(last.pre.pc + 1))
OperandWord == OperandByte + 256 * Read(last.pre.memory, U16(last.pre.pc + 2))

\* the little-endian word at zero-page address p, the high byte taken from
\* the zero page
ZpWord(p) == Read(last.pre.memory, p) + 256 * Read(last.pre.memory, U8(p + 1))

\* the stepped instruction used address: LDA loaded the byte there, STA
\* stored the accumulator there and nowhere else
Addressed(address) ==
    IF INSTRUCTIONS[last.arg].mnemonic = "LDA"
    THEN a = Read(last.pre.memory, address) /\ memory = last.pre.memory
    ELSE /\ Read(memory, address) = last.pre.a
         /\ Changed(memory, last.pre.memory) \subseteq {address}

\* the index the mode of the stepped instruction adds
AddressIndex ==
    LET mode == INSTRUCTIONS[last.arg].mode
    IN  IF mode \in {"AbsoluteX", "IndirectX"} THEN last.pre.x
        ELSE IF mode \in {"AbsoluteY", "IndirectY"} THEN last.pre.y
        ELSE 0

\* C24: in the absolute, absolute+X and absolute+Y modes the effective
\* address is (w + i) mod 65536 for the word w after the opcode and the
\* index i, without error when the sum passes 0xFFFF, for reads and for
\* writes alike, and pc advances by 2 past the opcode.
AbsoluteAddressWraps ==
    AddressDone({"Absolute", "AbsoluteX", "AbsoluteY"}) =>
        /\ ~panicked
        /\ Addressed(U16(OperandWord + AddressIndex))
        /\ pc = U16(last.pre.pc + 3)

\* the same for the steps that return
AbsoluteAddressWrapsIfReturns == panicked \/ AbsoluteAddressWraps

\* C25: in the (zp,X) mode with operand byte b the pointer is
\* p = (b + X) mod 256 and the effective address is the word at p, without
\* error for every p, 0xFF included; X is not added to it and pc advances
\* by 1 past the opcode.
IndexedIndirectAddress ==
    AddressDone({"IndirectX"}) =>
        /\ ~panicked
        /\ Addressed(ZpWord(U8(OperandByte + last.pre.x)))
        /\ pc = U16(last.pre.pc + 2)

\* the same for the steps that return
IndexedIndirectAddressIfReturns == panicked \/ IndexedIndirectAddress

\* C26: in the (zp),Y mode with operand byte p the base is the word at p
\* and the effective address is (base + Y) mod 65536, without error when
\* the sum passes 0xFFFF; pc advances by 1 past the opcode.
IndirectIndexedAddressWraps ==
    AddressDone({"IndirectY"}) =>
        /\ ~panicked
        /\ Addressed(U16(ZpWord(OperandByte) + last.pre.y))
        /\ pc = U16(last.pre.pc + 2)

\* the same for the steps that return
IndirectIndexedAddressWrapsIfReturns == panicked \/ IndirectIndexedAddressWraps

\* ------------------------------------------------------------------------
\* One step() of ADC and SBC in every addressing mode, with the Decimal
\* flag clear and set

DecimalOpcodes ==
    {op \in DOMAIN INSTRUCTIONS : INSTRUCTIONS[op].mnemonic \in {"ADC", "SBC"}}

\* operands with decimal digits and without
DecimalOperands == {0, 1, 9, 80, 153, 255}

InitDecimal ==
    /\ \E opcode \in DecimalOpcodes, acc \in Byte, operand \in DecimalOperands,
          carry \in {0, 1}, decimal \in {0, D_FLAG}, others \in {0, 246} :
          Start([Default EXCEPT
                    !.running = TRUE, !.pc = TestPc, !.sp = 255,
                    !.a = acc, !.x = 1, !.y = 1,
                    !.status = others + decimal + carry,
                    !.memory = Fixture(opcode, operand, 1, 1)])
    /\ overflow_checks \in BOOLEAN
    /\ main = NotInMain

StepDecimal ==
    /\ last.op = "none"
    /\ DoStep
    /\ UNCHANGED main

NextDecimal == StepDecimal

SpecDecimal == InitDecimal /\ [][NextDecimal]_vars

DecimalDone == last.op = "step" /\ last.arg \in DecimalOpcodes

\* the step() of the CPU that differed from this one only in the Decimal
\* flag
DecimalTwin ==
    step([last.pre EXCEPT !.status = BitXor(last.pre.status, D_FLAG)])

\* C27: two CPUs that differ only in the Decimal flag come out of the same
\* ADC or SBC with the same accumulator, Carry, Overflow, Zero and
\* Negative, the same pc and memory, and each with its Decimal flag as it
\* was.
DecimalNeverConsulted ==
    DecimalDone =>
        LET twin == DecimalTwin
        IN  /\ panicked = twin.panicked
            /\ ~panicked =>
                  /\ a = twin.a
                  /\ BitAnd(status, 255 - D_FLAG) = BitAnd(twin.status, 255 - D_FLAG)
                  /\ pc = twin.pc
                  /\ memory = twin.memory
                  /\ is_set(Self, "Decimal") = is_set(last.pre, "Decimal")
                  /\ is_set(twin, "Decimal") # is_set(last.pre, "Decimal")

\* ADC #$01 on 0x09 with Decimal set: 0x0A, the binary sum
DecimalNeverConsultedReached ==
    /\ DecimalDone
    /\ last.arg = 105
    /\ is_set(last.pre, "Decimal")
    /\ last.pre.a = 9
    /\ FixtureOperand = 1
    /\ ~is_set(last.pre, "Carry")
    /\ a = 10
    /\ is_set(Self, "Decimal")

\* ------------------------------------------------------------------------
\* set_flag() and the rest of the CPU (under SpecFlags)

\* C28: after set_flag(f, v), is_set(f) is v, every other bit of the
\* status, bit 5 included, is as it was, and no register, memory byte,
\* cycle count or running flag has changed.
SetFlagDone == last.op = "set_flag"

SetFlagChangesOneBit ==
    SetFlagDone =>
        LET f == last.arg[1]
            v == last.arg[2]
            others == 255 - get_flag_constant(f)
        IN  /\ ~panicked
            /\ is_set(Self, f) = v
            /\ BitAnd(status, others) = BitAnd(last.pre.status, others)
            /\ a = last.pre.a
            /\ x = last.pre.x
            /\ y = last.pre.y
            /\ sp = last.pre.sp
            /\ pc = last.pre.pc
            /\ memory = last.pre.memory
            /\ cycles = last.pre.cycles
            /\ running = last.pre.running

\* Zero cleared in a used CPU whose status was 0xFF: 0xFD, bit 5 still set
SetFlagChangesOneBitReached ==
    /\ SetFlagDone
    /\ last.arg = <<"Zero", FALSE>>
    /\ last.pre.status = 255
    /\ last.pre.a = 170
    /\ status = 253
    /\ a = 170
    /\ memory = Write(EmptyMemory, 16, 66)

\* ------------------------------------------------------------------------
\* One step() of INX, INY, DEX, DEY, INC and DEC for every byte

IncrementMnemonics == {"INX", "INY", "INC"}
DecrementMnemonics == {"DEX", "DEY", "DEC"}

IncDecOpcodes ==
    {op \in DOMAIN INSTRUCTIONS :
        INSTRUCTIONS[op].mnemonic \in IncrementMnemonics \cup DecrementMnemonics}

\* the CPU with value in the register or memory byte the opcode changes
\* and idx in the index registers it does not change
IncDecCpu(opcode, value, idx, st) ==
    LET m == INSTRUCTIONS[opcode].mnemonic
        xr == IF m \in {"INX", "DEX"} THEN value ELSE idx
        yr == IF m \in {"INY", "DEY"} THEN value ELSE idx
    IN  [Default EXCEPT
            !.running = TRUE, !.pc = TestPc, !.sp = 255, !.status = st,
            !.x = xr, !.y = yr,
            !.memory = IF m \in {"INC", "DEC"}
                       THEN Fixture(opcode, value, xr, yr)
                       ELSE WriteBytes(EmptyMemory, TestPc, <<opcode>>)]

InitIncDec ==
    /\ \E opcode \in IncDecOpcodes, value \in Byte, idx \in IndexBytes,
          st \in {0, 255} :
          Start(IncDecCpu(opcode, value, idx, st))
    /\ overflow_checks \in BOOLEAN
    /\ main = NotInMain

StepIncDec ==
    /\ last.op = "none"
    /\ DoStep
    /\ UNCHANGED main

NextIncDec == StepIncDec

SpecIncDec == InitIncDec /\ [][NextIncDec]_vars

IncDecDone(mnemonics) ==
    /\ last.op = "step"
    /\ last.arg \in IncDecOpcodes
    /\ INSTRUCTIONS[last.arg].mnemonic \in mnemonics

\* the byte the stepped instruction changes, before and after
IncDecBefore ==
    LET m == INSTRUCTIONS[last.arg].mnemonic
    IN  IF m \in {"INX", "DEX"} THEN last.pre.x
        ELSE IF m \in {"INY", "DEY"} THEN last.pre.y
        ELSE FixtureOperand
IncDecAfter ==
    LET m == INSTRUCTIONS[last.arg].mnemonic
    IN  IF m \in {"INX", "DEX"} THEN x
        ELSE IF m \in {"INY", "DEY"} THEN y
        ELSE Read(memory, FixtureAddress(last.arg, last.pre.x, last.pre.y))

\* C29: INX, INY and INC add 1 and DEX, DEY and DEC subtract 1 modulo 256
\* and never abort: 0xFF becomes 0x00 with Zero set, 0x00 becomes 0xFF with
\* Negative set.
IncDecWraps ==
    /\ IncDecDone(IncrementMnemonics) =>
          /\ ~panicked
          /\ IncDecAfter = U8(IncDecBefore + 1)
          /\ IncDecBefore = 255 => (IncDecAfter = 0 /\ is_set(Self, "Zero"))
    /\ IncDecDone(DecrementMnemonics) =>
          /\ ~panicked
          /\ IncDecAfter = U8(IncDecBefore - 1)
          /\ IncDecBefore = 0 => (IncDecAfter = 255 /\ is_set(Self, "Negative"))

\* the same for the steps that return
IncDecWrapsIfReturns == panicked \/ IncDecWraps

\* ------------------------------------------------------------------------
\* One step() of JMP, JSR, LDA and STA with an absolute operand, and of RTS,
\* at the end of the address space

PcOpcodes == {76, 32, 173, 141, 96}        \* JMP, JSR, LDA, STA absolute; RTS
PcEdges == {65532, 65533, 65534, 65535}    \* 0xFFFC .. 0xFFFF

\* the two bytes on top of the stack: the return addresses 0xFFFF, 0x1234
\* and 0x00FF
StackTops == {<<255, 255>>, <<52, 18>>, <<255, 0>>}

InitPc ==
    /\ \E opcode \in PcOpcodes, p \in PcEdges \cup {TestPc}, top \in StackTops :
          Start([Default EXCEPT
                    !.running = TRUE, !.pc = p, !.sp = 253, !.a = 165,
                    !.memory = WriteBytes(WriteBytes(Background, 510, top),
                                          p, <<opcode>>)])
    /\ overflow_checks \in BOOLEAN
    /\ main = NotInMain

StepPc ==
    /\ last.op = "none"
    /\ DoStep
    /\ UNCHANGED main

NextPc == StepPc

SpecPc == InitPc /\ [][NextPc]_vars

PcDone(opcodes) == last.op = "step" /\ last.arg \in opcodes

\* C30: pc arithmetic never aborts and wraps modulo 65536: an absolute
\* operand is read at pc and pc + 1 (mod 65536) and leaves pc two further
\* (mod 65536) wherever the opcode lies, and RTS sets pc to the popped
\* address plus 1 (mod 65536), 0x0000 after 0xFFFF.
PcArithmeticWraps ==
    /\ PcDone(PcOpcodes) => ~panicked
    /\ PcDone({76, 32}) => pc = OperandWord
    /\ PcDone({173}) =>
          (a = Read(last.pre.memory, OperandWord) /\ pc = U16(last.pre.pc + 3))
    /\ PcDone({141}) =>
          (Read(memory, OperandWord) = last.pre.a /\ pc = U16(last.pre.pc + 3))
    /\ PcDone({96}) => pc = U16(Stacked(1) + 256 * Stacked(2) + 1)

\* the same for the steps that return
PcArithmeticWrapsIfReturns == panicked \/ PcArithmeticWraps

\* ------------------------------------------------------------------------
\* The driver loop as a sequential program that runs on: main.rs has one
\* thread, so when the loop condition is false the loop is left, and when
\* the pacing branch is the one to take it is taken (sleep returns).

SpecFair ==
    Init /\ [][Next]_vars /\ WF_vars(MainExit) /\ WF_vars(MainSleep)

HaltedInLoop == main.at = "loop" /\ ~running

\* C31: in the driver loop, once a step leaves is_running() false, no
\* further call is made on the CPU (the halting step stays the last call)
\* and the loop is left.
DriverStopsAtHalt ==
    /\ [][(main.at \in {"loop", "exit"} /\ ~running) => last' = last]_vars
    /\ [](HaltedInLoop => (last.op = "step" /\ last.pre.running))
    /\ (HaltedInLoop ~> (main.at = "exit"))
    /\ [][main.at = "exit" => main'.at = "exit"]_vars

DriverStopsAtHaltReached ==
    /\ main.at = "exit"
    /\ ~running
    /\ last.op = "step"
    /\ last.pre.running
    /\ last.n > 3

\* the loop is in its pacing branch: the CPU runs and cycle_count() is not
\* below the target
Starved == main.at = "loop" /\ running /\ ~(cycles < EmuSpeed)

\* C38: pacing does not starve execution: whenever the driver loop takes its
\* sleep branch, the cycle count is brought back below the target, so that
\* a later iteration calls step() again.
PacingResumesStepping == Starved ~> (running /\ cycles < EmuSpeed)

\* what the loop does instead: once in the pacing branch it stays there
PacingStarves == [][Starved => Starved']_vars

\* ------------------------------------------------------------------------
\* The program counter after one step()

\* the number of operand bytes of an addressing mode
OperandLength(mode) ==
    CASE mode \in {"Implied", "Accumulator"} -> 0
      [] mode \in {"Immediate", "Zero", "ZeroX", "ZeroY", "IndirectX",
                   "IndirectY", "Relative"} -> 1
      [] mode \in {"Absolute", "AbsoluteX", "AbsoluteY", "Indirect"} -> 2

\* the mnemonics that set pc to another place
ControlFlow == {"JMP", "JSR", "RTS", "RTI", "BRK"}

\* the condition a branch mnemonic tests, on status byte st
BranchCondition(mnemonic, st) ==
    CASE mnemonic = "BPL" -> Bit(st, 7) = 0
      [] mnemonic = "BMI" -> Bit(st, 7) = 1
      [] mnemonic = "BVC" -> Bit(st, 6) = 0
      [] mnemonic = "BVS" -> Bit(st, 6) = 1
      [] mnemonic = "BCC" -> Bit(st, 0) = 0
      [] mnemonic = "BCS" -> Bit(st, 0) = 1
      [] mnemonic = "BNE" -> Bit(st, 1) = 0
      [] mnemonic = "BEQ" -> Bit(st, 1) = 1
      [] OTHER -> FALSE

\* a step() that fetched a table opcode which is no jump, call, return or
\* BRK and no taken branch
SequentialDone ==
    /\ last.op = "step"
    /\ last.arg \in DOMAIN INSTRUCTIONS
    /\ INSTRUCTIONS[last.arg].mnemonic \notin ControlFlow
    /\ ~BranchCondition(INSTRUCTIONS[last.arg].mnemonic, last.pre.status)

\* C32: for every table opcode other than JMP, JSR, RTS, RTI, BRK and taken
\* branches, one step() of the opcode at P leaves pc = (P + 1 + n) mod
\* 65536, n the operand length of the opcode's addressing mode.
PcAdvancesByOperandLength ==
    SequentialDone =>
        /\ ~panicked
        /\ pc = U16(last.pre.pc + 1 + OperandLength(INSTRUCTIONS[last.arg].mode))

\* the same for the steps that return
PcAdvancesByOperandLengthIfReturns == panicked \/ PcAdvancesByOperandLength

\* ------------------------------------------------------------------------
\* One step() of every table opcode that takes an operand from memory, with
\* the operand placed where the addressing mode finds it

OperandModes == {"Immediate", "Zero", "ZeroX", "ZeroY", "Absolute",
                 "AbsoluteX", "AbsoluteY", "IndirectX", "IndirectY"}

OperandOpcodes ==
    {op \in DOMAIN INSTRUCTIONS : INSTRUCTIONS[op].mode \in OperandModes}

InitOperand ==
    /\ \E opcode \in OperandOpcodes, value \in EdgeBytes, acc \in EdgeBytes,
          xr \in IndexBytes, yr \in IndexBytes, st \in {0, 255} :
          Start([Default EXCEPT
                    !.running = TRUE, !.pc = TestPc, !.sp = 255,
                    !.status = st, !.a = acc, !.x = xr, !.y = yr,
                    !.memory = Fixture(opcode, value, xr, yr)])
    /\ overflow_checks \in BOOLEAN
    /\ main = NotInMain

StepOperand ==
    /\ last.op = "none"
    /\ DoStep
    /\ UNCHANGED main

NextOperand == StepOperand

SpecOperand == InitOperand /\ [][NextOperand]_vars

\* a step() that fetched an opcode of one of the mnemonics
OperandDone(mnemonics) ==
    /\ last.op = "step"
    /\ last.arg \in OperandOpcodes
    /\ INSTRUCTIONS[last.arg].mnemonic \in mnemonics

\* what BIT leaves of accumulator and memory, and in Negative and Overflow
BitCopiesOperandBits ==
    /\ ~panicked
    /\ is_set(Self, "Negative") <=> (Bit(FixtureOperand, 7) = 1)
    /\ is_set(Self, "Overflow") <=> (Bit(FixtureOperand, 6) = 1)
    /\ a = last.pre.a
    /\ memory = last.pre.memory

\* C33: BIT with accumulator A and memory operand M sets Zero iff
\* (A AND M) = 0, Negative to bit 7 of M and Overflow to bit 6 of M, and
\* leaves the accumulator and memory unchanged.
BitTestsBits ==
    OperandDone({"BIT"}) =>
        /\ BitCopiesOperandBits
        /\ is_set(Self, "Zero") <=> (BitAnd(last.pre.a, FixtureOperand) = 0)

\* what the code does instead: Zero is set iff (A AND M) is not 0
BitZeroIsInverted ==
    OperandDone({"BIT"}) =>
        /\ BitCopiesOperandBits
        /\ is_set(Self, "Zero") <=> (BitAnd(last.pre.a, FixtureOperand) # 0)

\* the register a store mnemonic writes, before the step
StoredRegister ==
    LET m == INSTRUCTIONS[last.arg].mnemonic
    IN  IF m = "STA" THEN last.pre.a
        ELSE IF m = "STX" THEN last.pre.x
        ELSE last.pre.y

\* C34: STA, STX and STY, in every addressing mode the table has for them,
\* write the register's value to the one memory byte at the effective
\* address and leave the status register, A, X, Y, the stack pointer and
\* every other memory byte unchanged.
StoreAffectsOneByte ==
    OperandDone({"STA", "STX", "STY"}) =>
        /\ ~panicked
        /\ memory = Write(last.pre.memory,
                          FixtureAddress(last.arg, last.pre.x, last.pre.y),
                          StoredRegister)
        /\ Changed(memory, last.pre.memory) \subseteq
              {FixtureAddress(last.arg, last.pre.x, last.pre.y)}
        /\ status = last.pre.status
        /\ a = last.pre.a
        /\ x = last.pre.x
        /\ y = last.pre.y
        /\ sp = last.pre.sp

\* STA ($10),Y with Y = 0xFF writing 0x80 over 0x01 at 0x03FF, all flags
\* clear before and after
StoreAffectsOneByteReached ==
    /\ OperandDone({"STA"})
    /\ ~panicked
    /\ INSTRUCTIONS[last.arg].mode = "IndirectY"
    /\ last.pre.y = 255
    /\ last.pre.a = 128
    /\ Read(last.pre.memory, FixturePointer + 255) = 1
    /\ Read(memory, FixturePointer + 255) = 128
    /\ last.pre.status = 0
    /\ status = 0

\* ------------------------------------------------------------------------
\* The modes the handlers pass to read_value() and read_address()

\* C35: for every opcode of the table, the handler passes to read_value()
\* only a mode it handles, so the "Illegal addressing mode" panic is never
\* hit, and to read_address() only a mode for which it computes an address
\* rather than returning the default 0: the only aborts of a step are those
\* of checked arithmetic.
TableModesAreHandled ==
    (last.op = "step" /\ last.arg \in DOMAIN INSTRUCTIONS) =>
        /\ "unhandled" \notin DOMAIN step(last.pre)
        /\ panicked => overflow_checks

\* DEC $0210,X took its address from read_address() and wrapped the 0 there
\* to 0xFF
TableModesAreHandledReached ==
    /\ last.op = "step"
    /\ last.arg = 222
    /\ ~panicked
    /\ Read(memory, 528 + last.pre.x) = 255
    /\ "unhandled" \notin DOMAIN step(last.pre)

\* ------------------------------------------------------------------------
\* mem.rs: CpuRam.  The data array is kept in the variable memory (the byte
\* at index i of data is Read(memory, i)), an index outside the array is a
\* panic, and the other CPU fields stay as created.

\* the length of data
CpuRamSize == 2048

\* the number of calls made on one CpuRam
MaxRamCalls == 2

\* the index read() and write() use for an address
CpuRamIndex(address) == BitAnd(address, 26623)          \* address & 0x67ff

CpuRam_new == Default

CpuRam_read(ram, address) ==
    LET index == CpuRamIndex(address)
    IN  IF index < CpuRamSize
        THEN [s |-> ram, v |-> Read(ram.memory, index)]
        ELSE [s |-> Panic(ram), v |-> 0]        \* index out of bounds

CpuRam_write(ram, address, value) ==
    LET index == CpuRamIndex(address)
    IN  IF index < CpuRamSize
        THEN [ram EXCEPT !.memory = Write(ram.memory, index, value)]
        ELSE Panic(ram)                         \* index out of bounds

\* the first two and the last address of the RAM, of its three mirrors and
\* of six 2 KB blocks above them
RamAddresses ==
    {base + offset :
        base \in {0, 2048, 4096, 6144, 8192, 16384, 24576, 32768, 57344, 63488},
        offset \in {0, 1, 2047}}

InitCpuRam ==
    /\ Start(CpuRam_new)
    /\ overflow_checks \in BOOLEAN
    /\ main = NotInMain

ReadCpuRam ==
    /\ ~panicked
    /\ last.n < MaxRamCalls
    /\ \E address \in RamAddresses :
          LET r == CpuRam_read(Self, address)
          IN  Commit(r.s, "read", address, r.v)
    /\ UNCHANGED main

WriteCpuRam ==
    /\ ~panicked
    /\ last.n < MaxRamCalls
    /\ \E address \in RamAddresses, value \in {1, 171} :
          Commit(CpuRam_write(Self, address, value), "write",
                 <<address, value>>, 0)
    /\ UNCHANGED main

NextCpuRam == ReadCpuRam \/ WriteCpuRam

SpecCpuRam == InitCpuRam /\ [][NextCpuRam]_vars

\* the address of the last call
RamAddress == IF last.op = "write" THEN last.arg[1] ELSE last.arg

\* a read() that follows a write() below 0x0800 and reads one of the three
\* mirrors of the address written
MirrorRead ==
    /\ last.op = "read"
    /\ last.before.op = "write"
    /\ last.before.arg[1] < CpuRamSize
    /\ \E k \in 1..3 : last.arg = last.before.arg[1] + CpuRamSize * k

\* addresses 0x0800..0x1FFF mirror 0x0000..0x07FF
CpuRamMirrors == MirrorRead => (~panicked /\ last.ret = last.before.arg[2])

\* C36: for every 16-bit address, CpuRam read() and write() use an index
\* within the 2 KB data array, and addresses 0x0800..0x1FFF mirror
\* 0x0000..0x07FF: write(a, v) followed by read(a + 0x0800 * k) returns v
\* for a < 0x0800 and k in 1..3.
CpuRamAccessIsValid ==
    /\ last.op \in {"read", "write"} =>
          (~panicked /\ CpuRamIndex(RamAddress) < CpuRamSize)
    /\ CpuRamMirrors

\* a write at 0x07FF read back at 0x1FFF
CpuRamMirrorsReached ==
    /\ MirrorRead
    /\ last.arg = 8191
    /\ last.ret = 171

\* ------------------------------------------------------------------------
\* step() and reset() on a CPU that is not running

\* the number of calls made on one CPU
MaxHaltedCalls == 3

\* any byte as the opcode at TestPc, where the reset vector points, in a
\* CPU whose running is false
InitHalted ==
    /\ \E opcode \in Byte, fill \in {0, 255} :
          Start([Default EXCEPT
                    !.running = FALSE, !.pc = TestPc, !.sp = 255,
                    !.a = fill, !.x = fill, !.y = fill, !.status = fill,
                    !.memory =
                        WriteBytes(
                            WriteBytes(EmptyMemory, TestPc, <<opcode, 16, 2>>),
                            RESET_VECTOR, <<TestPc % 256, TestPc \div 256>>)])
    /\ overflow_checks \in BOOLEAN
    /\ main = NotInMain

StepHalted ==
    /\ ~panicked
    /\ last.n < MaxHaltedCalls
    /\ DoStep
    /\ UNCHANGED main

ResetHalted ==
    /\ ~panicked
    /\ last.n < MaxHaltedCalls
    /\ DoReset
    /\ UNCHANGED main

NextHalted == StepHalted \/ ResetHalted

SpecHalted == InitHalted /\ [][NextHalted]_vars

\* C37: once running is false it stays false across further step() calls,
\* whatever opcode is fetched; only reset() makes it true again.
HaltPersists ==
    /\ (last.op = "step" /\ ~last.pre.running) => ~running
    /\ (last.op = "reset" /\ ~panicked) => running
    /\ (running /\ last.op = "step") => last.pre.running
    /\ (running /\ ~last.pre.running) => last.op = "reset"

\* two steps on the halted CPU, NOP and then BPL, left it halted
HaltPersistsReached ==
    /\ last.op = "step"
    /\ last.before.op = "step"
    /\ ~last.before.pre.running
    /\ ~last.pre.running
    /\ last.arg = 16
    /\ last.before.arg = 234
    /\ ~panicked
    /\ ~running
    /\ last.n = 2

\* ------------------------------------------------------------------------
\* The memory one step() changes

\* the mnemonics that write their operand when it is in memory
StoreMnemonics == {"STA", "STX", "STY"}
ModifyMnemonics == {"INC", "DEC", "ASL", "LSR", "ROL", "ROR"}

\* the address read_address() gives the stepped instruction
EffectiveAddress ==
    read_address([last.pre EXCEPT !.pc = U16(last.pre.pc + 1)],
                 INSTRUCTIONS[last.arg].mode).v

\* the n stack cells from the stack pointer of the stepped CPU downwards
PushedCells(n) == {StackAddress(last.pre.sp - k) : k \in 0..(n - 1)}

\* the memory cells the stepped instruction may change
Writable ==
    LET m == INSTRUCTIONS[last.arg].mnemonic
        mode == INSTRUCTIONS[last.arg].mode
    IN  IF m \in StoreMnemonics THEN {EffectiveAddress}
        ELSE IF m \in ModifyMnemonics /\ mode # "Accumulator"
        THEN {EffectiveAddress}
        ELSE IF m \in {"PHA", "PHP"} THEN PushedCells(1)
        ELSE IF m = "JSR" THEN PushedCells(2)
        ELSE IF m = "BRK" THEN PushedCells(3)
        ELSE {}

\* C39: one step() changes memory only as follows: stores and the memory
\* forms of INC, DEC, ASL, LSR, ROL, ROR change at most the byte at the
\* effective address; PHA and PHP change one byte, JSR two and BRK three,
\* all in the stack page; every other instruction leaves memory unchanged.
StepChangesOnlyItsCells ==
    (last.op = "step" /\ last.arg \in DOMAIN INSTRUCTIONS) =>
        /\ Changed(memory, last.pre.memory) \subseteq Writable
        /\ INSTRUCTIONS[last.arg].mnemonic \in {"PHA", "PHP", "JSR", "BRK"} =>
              Writable \subseteq StackPageAddresses

\* JSR with the stack pointer at 0xFF changed the two bytes at 0x01FF and
\* 0x01FE and nothing else
StepChangesOnlyItsCellsReached ==
    /\ last.op = "step"
    /\ last.arg = 32
    /\ ~panicked
    /\ last.pre.sp = 255
    /\ Changed(memory, last.pre.memory) = {511, 510}

\* ------------------------------------------------------------------------
\* BRK, then RTI as the whole interrupt handler

\* BRK at p, the IRQ vector pointing at target, and RTI (0x40) there
InitRoundTrip ==
    /\ \E p \in BrkPcs, s \in BrkStackPointers, st \in BrkStatuses,
          target \in IrqTargets :
          Start([Default EXCEPT
                    !.running = TRUE, !.pc = p, !.sp = s, !.status = st,
                    !.memory =
                        WriteBytes(
                            WriteBytes(EmptyMemory, target, <<64>>),
                            IRQ_VECTOR, <<target % 256, target \div 256>>)])
    /\ overflow_checks \in BOOLEAN
    /\ main = NotInMain

StepRoundTrip ==
    /\ ~panicked
    /\ last.n < MaxSteps
    /\ DoStep
    /\ UNCHANGED main

NextRoundTrip == StepRoundTrip

SpecRoundTrip == InitRoundTrip /\ [][NextRoundTrip]_vars

\* a step that fetched RTI right after a step that fetched BRK, the stack
\* pointer and the three pushed bytes being as BRK left them
RoundTripDone ==
    /\ last.op = "step"
    /\ last.arg = 64
    /\ last.before.op = "step"
    /\ last.before.arg = 0

\* C40: BRK at P with stack pointer s and status S, followed by RTI, leaves
\* pc = P + 2 (mod 65536), the stack pointer s, and the status S with the
\* Break bit set, Interrupt-disable as it was before the BRK.
BrkRtiRoundTrip ==
    RoundTripDone =>
        /\ ~panicked
        /\ pc = U16(last.before.pre.pc + 2)
        /\ sp = last.before.pre.sp
        /\ status = BitOr(last.before.pre.status, B_FLAG)
        /\ is_set(Self, "Interrupt") <=> is_set(last.before.pre, "Interrupt")
        /\ is_set(last.pre, "Interrupt")

\* BRK at 0xFFFF with the stack pointer at 1 and Interrupt-disable clear:
\* the pushes wrap in the stack page, and RTI comes back to 0x0001
BrkRtiRoundTripReached ==
    /\ RoundTripDone
    /\ ~panicked
    /\ last.before.pre.pc = 65535
    /\ last.before.pre.sp = 1
    /\ last.before.pre.status = 235
    /\ pc = 1
    /\ sp = 1
    /\ status = 251

====
